---------------------------- MODULE Spec2Model ----------------------------
(***************************************************************************)
(* A model of the CAST front end's driver (src/src/main.c) and of the      *)
(* library entry points it calls (cast.c: cc_init, cc_destroy,             *)
(* cc_link_progs, ...).                                                    *)
(*                                                                         *)
(* Pointers are modelled as positive integers, NULL as 0.  An Obj is a     *)
(* record holding the fields cc_link_progs reads or writes; the heap       *)
(* `objs` maps an Obj's address to its record.  Addresses are handed out   *)
(* in scan order (progs[0] front to back, then progs[1], ...), so the      *)
(* scan position of an object is its address.                              *)
(***************************************************************************)
EXTENDS Integers, Sequences, FiniteSets, TLC

\* ------------------------------------------------------------------------
\* Bounds of the model
\* ------------------------------------------------------------------------
MaxObjs == 3        \* objects over all the lists handed to cc_link_progs
MaxUnits == 2       \* lists (translation units) handed to cc_link_progs
MaxErrors == 2      \* largest max_errors a session is configured with
MaxLinks == 2       \* calls of cc_link_progs on one unit and on its result
MaxFiles == 2       \* input files on main's command line
MaxWarnings == 1    \* warnings raised in one run of main
MaxArgs == 3        \* elements of argv after argv[0]
MaxSteps == 32      \* steps of the preprocessor's scan of one token list
MaxToks == 3        \* lexemes in the text of a source file; tokens of a printed list
MaxCalls == 2       \* calls of cc_preprocess made by a library caller
MaxSize == 4        \* characters in the argument of --embed-limit
MaxCond == 5        \* lexemes in a text with conditional directives
MaxLen == 5         \* characters in the argument of -D

\* ------------------------------------------------------------------------
\* Program constants
\* ------------------------------------------------------------------------
DEFAULT_MAX_ERRORS == 20

NULL == 0

Names == {"a", "b"}

\* The shapes of top-level Obj the parser hands over.  body and init_data
\* are pointers; a non-NULL one is written 1 here and replaced by the
\* owning object's address when the object is placed on the heap.
Flavours ==
    { [is_function |-> TRUE,  is_definition |-> TRUE,  body |-> 1, init_data |-> 0],   \* int f(void) {}
      [is_function |-> FALSE, is_definition |-> FALSE, body |-> 0, init_data |-> 0],   \* extern int x;
      [is_function |-> FALSE, is_definition |-> TRUE,  body |-> 0, init_data |-> 1],   \* int x = 1;
      [is_function |-> FALSE, is_definition |-> FALSE, body |-> 0, init_data |-> 1] }  \* extern int x = 1;

VARIABLES
    cc,         \* the session (struct CAST): the fields the model reads
    objs,       \* the heap of Obj: address -> record
    objs0,      \* the heap as it was when cc_link_progs was first called
    progs,      \* Obj **progs: the head of each list (NULL: an empty list)
    count,      \* int count (the driver's input_files_count)
    merged,     \* the value cc_link_progs returned (the driver's merged_prog)
    lpc,        \* where a library caller of cc_link_progs is: "call", "returned", "escaped"
    nlinks,     \* calls of cc_link_progs made so far
    pc,         \* where main is
    opt,        \* main's option variables after the getopt_long loop
    exit_code,  \* int exit_code
    idx,        \* the loop variable i of main's loops over the input files
    calls,      \* the library and stdio calls main has made, in order
    open_files, \* FILE * that fopen returned and fclose has not closed
    inited,     \* cc_init has run on main's CAST cc
    jumped,     \* the longjmp to main's setjmp has been taken
    argv,       \* the command line after argv[0], one element per option or file
    optind,     \* getopt's index of the next element of argv
    input_files,\* const char **input_files
    flags,      \* the option variables the getopt_long loop sets; cc_init's flags argument
    compiler,   \* cc.compiler (struct Compiler): the fields the model reads
    stdin,      \* the text not yet read from standard input
    stdin0,     \* the text standard input held when the process started
    fs,         \* the files on disk: path -> text (a sequence of lexemes)
    reads,      \* one record per call of cc_preprocess: what it read and returned
    defines,    \* const char **defines: the arguments of -D, each a string of characters
    undefs,     \* const char **undefs: the arguments of -U
    define_calls, \* the calls of define_macro made through cc_define: [name, buf]
    compiler2,  \* the compiler state of a second session of the same process
    compiler0,  \* the compiler states the two sessions started from
    tokens,     \* Token *tok: the list handed to cc_print_tokens
    stdout      \* what has been written to standard output, one string per write

linkVars == <<objs0, lpc>>
driverVars == <<pc, opt, exit_code, idx, calls, open_files, inited, jumped>>
cliVars == <<argv, optind, input_files, flags, compiler, stdin, stdin0, fs, reads,
             defines, undefs, define_calls>>
libVars == <<compiler2, compiler0, tokens, stdout>>
\* cliVars without fs and libVars without stdout, for the steps of main that
\* write to the output file or to stdout.
cliRest == <<argv, optind, input_files, flags, compiler, stdin, stdin0, reads,
             defines, undefs, define_calls>>
libRest == <<compiler2, compiler0, tokens>>
vars == <<cc, objs, objs0, progs, count, merged, lpc, nlinks,
          pc, opt, exit_code, idx, calls, open_files, inited, jumped,
          argv, optind, input_files, flags, compiler, stdin, stdin0, fs, reads,
          defines, undefs, define_calls, compiler2, compiler0, tokens, stdout>>

\* ------------------------------------------------------------------------
\* The session
\* ------------------------------------------------------------------------

\* cc_init: the error settings of a freshly initialised session.
cc_init ==
    [ max_errors         |-> DEFAULT_MAX_ERRORS,
      collect_errors     |-> FALSE,
      warnings_as_errors |-> FALSE,
      error_count        |-> 0,
      warning_count      |-> 0,
      errors             |-> << >>,
      error_message      |-> << >> ]   \* NULL: no message; else <<message>>

\* cc_init: cc.compiler after memset and the defaults cc_init sets.  macros
\* holds the macros defined by the user (name -> macro).
compiler_init ==
    [ skip_preprocess  |-> FALSE,
      use_std_inc      |-> TRUE,
      embed_limit      |-> 10 * 1024 * 1024,
      embed_hard_limit |-> 50 * 1024 * 1024,
      embed_hard_error |-> FALSE,
      macros           |-> << >>,
      pragma_once      |-> {} ]

\* main's option variables before the getopt_long loop.
NoFlags ==
    [ preprocess_only |-> FALSE, skip_preprocess |-> FALSE ]

\* No second session and no token list to print: the variables of the
\* library specifications at rest.
IdleLib ==
    /\ compiler2 = compiler_init
    /\ compiler0 = << >>
    /\ tokens = << >>
    /\ stdout = << >>

\* No command line is being read: the variables of the command-line
\* specifications at rest.
IdleCli ==
    /\ argv = << >>
    /\ optind = 1
    /\ input_files = << >>
    /\ flags = NoFlags
    /\ compiler = compiler_init
    /\ stdin = << >>
    /\ stdin0 = << >>
    /\ fs = << >>
    /\ reads = << >>
    /\ defines = << >>
    /\ undefs = << >>
    /\ define_calls = << >>
    /\ IdleLib

\* error_tok(vm, tok, fmt, ...): with error collection on and room in the
\* list the error is appended and the call returns; otherwise the message is
\* kept in error_message and the non-local escape is taken.
error_tok(vm, tok, msg) ==
    IF vm.collect_errors /\ vm.error_count < vm.max_errors
    THEN [ vm |-> [vm EXCEPT !.errors = Append(@, [tok |-> tok, msg |-> msg]),
                             !.error_count = @ + 1],
           escaped |-> FALSE ]
    ELSE [ vm |-> [vm EXCEPT !.error_message = <<[tok |-> tok, msg |-> msg]>>],
           escaped |-> TRUE ]

\* ------------------------------------------------------------------------
\* cc_link_progs
\* ------------------------------------------------------------------------

\* bool obj_is_def = obj->is_definition || (obj->is_function && obj->body)
\*                   || (!obj->is_function && obj->init_data);
ObjIsDef_NoInitData(o) ==
    o.is_definition \/ (o.is_function /\ o.body # NULL)

ObjIsDef(o) ==
    \/ o.is_definition
    \/ (o.is_function /\ o.body # NULL)
    \/ (~o.is_function /\ o.init_data # NULL)

\* The three assignments that copy a definition's properties to `dst`.
CopyProps(heap, dst, src) ==
    [heap EXCEPT ![dst] = [@ EXCEPT !.is_definition = heap[src].is_definition,
                                    !.init_data = heap[src].init_data,
                                    !.ty = heap[src].ty]]

\* First pass, both objects are definitions: report at the later object.
OnBothDefs_AtExisting(st, existing, obj) ==
    LET r == error_tok(st.vm, st.objs[existing].tok,
                       [kind |-> "redefinition", name |-> st.objs[obj].name])
    IN [st EXCEPT !.vm = r.vm, !.escaped = r.escaped]

\* The error is reported and the later definition takes the name.
OnBothDefs_Replacing(st, existing, obj) ==
    LET r == error_tok(st.vm, st.objs[obj].tok,
                       [kind |-> "redefinition", name |-> st.objs[obj].name])
    IN [st EXCEPT !.vm = r.vm, !.escaped = r.escaped,
                  !.symbol_map[st.objs[obj].name] = obj]

OnBothDefs(st, existing, obj) ==
    LET r == error_tok(st.vm, st.objs[obj].tok,
                       [kind |-> "redefinition", name |-> st.objs[obj].name])
    IN [st EXCEPT !.vm = r.vm, !.escaped = r.escaped]

\* First pass, the new object is a definition and the existing one is not:
\* the definition replaces the declaration in the map.
OnNewDef(st, existing, obj) ==
    [st EXCEPT !.symbol_map[st.objs[obj].name] = obj,
               !.objs = CopyProps(st.objs, existing, obj)]

\* First pass, the existing object is a definition and the new one is not.
OnExistingDef(st, existing, obj) ==
    [st EXCEPT !.objs = CopyProps(st.objs, obj, existing)]

\* The body of the first pass's inner loop, for one object.
Visit1(st, obj) ==
    LET existing == st.symbol_map[st.objs[obj].name]
        obj_is_def == ObjIsDef(st.objs[obj])
    IN IF existing = NULL
       THEN [st EXCEPT !.symbol_map[st.objs[obj].name] = obj]
       ELSE LET existing_is_def == ObjIsDef(st.objs[existing])
            IN IF obj_is_def /\ existing_is_def THEN OnBothDefs(st, existing, obj)
               ELSE IF obj_is_def THEN OnNewDef(st, existing, obj)
               ELSE IF existing_is_def THEN OnExistingDef(st, existing, obj)
               ELSE st

\* for (i = 0; i < count; i++) for (obj = progs[i]; obj; obj = obj->next)
\* An escape out of error_tok leaves the loops at once.
RECURSIVE FirstPass(_, _, _, _, _)
FirstPass(st, ps, cnt, i, obj) ==
    IF st.escaped \/ i > cnt THEN st
    ELSE IF obj = NULL
         THEN FirstPass(st, ps, cnt, i + 1, IF i + 1 <= cnt THEN ps[i + 1] ELSE NULL)
         ELSE FirstPass(Visit1(st, obj), ps, cnt, i, st.objs[obj].next)

\* Second pass: whether `obj` goes on the merged list.
IsCanonical_Any(canonical, obj) == canonical # NULL

IsCanonical(canonical, obj) == canonical = obj

\* Second pass: a non-canonical object takes the canonical one's properties.
Propagate_DefOnly(heap, canonical, obj) ==
    IF canonical # NULL /\ canonical # obj /\ ObjIsDef(heap[canonical])
    THEN CopyProps(heap, obj, canonical)
    ELSE heap

Propagate(heap, canonical, obj) ==
    IF canonical # NULL /\ canonical # obj
    THEN CopyProps(heap, obj, canonical)
    ELSE heap

\* Second pass: append a canonical object to the merged list.
AppendMerged_Prepend(st, obj) ==
    IF st.merged = NULL
    THEN [st EXCEPT !.objs = [st.objs EXCEPT ![obj].next = NULL], !.merged = obj, !.tail = obj]
    ELSE [st EXCEPT !.objs = [st.objs EXCEPT ![obj].next = st.merged], !.merged = obj]

\* obj->next is left as it is.
AppendMerged_KeepNext(st, obj) ==
    IF st.merged = NULL
    THEN [st EXCEPT !.merged = obj, !.tail = obj]
    ELSE [st EXCEPT !.objs = [st.objs EXCEPT ![st.tail].next = obj], !.tail = obj]

AppendMerged(st, obj) ==
    LET cleared == [st.objs EXCEPT ![obj].next = NULL]
    IN IF st.merged = NULL
       THEN [st EXCEPT !.objs = cleared, !.merged = obj, !.tail = obj]
       ELSE [st EXCEPT !.objs = [cleared EXCEPT ![st.tail].next = obj], !.tail = obj]

\* The body of the second pass's inner loop, for one object.
Visit2(st, obj) ==
    LET canonical == st.symbol_map[st.objs[obj].name]
        st1 == [st EXCEPT !.objs = Propagate(st.objs, canonical, obj)]
    IN IF IsCanonical(canonical, obj) THEN AppendMerged(st1, obj) ELSE st1

RECURSIVE SecondPass(_, _, _, _, _)
SecondPass(st, ps, cnt, i, obj) ==
    IF i > cnt THEN st
    ELSE IF obj = NULL
         THEN SecondPass(st, ps, cnt, i + 1, IF i + 1 <= cnt THEN ps[i + 1] ELSE NULL)
         ELSE LET next_obj == st.objs[obj].next
              IN SecondPass(Visit2(st, obj), ps, cnt, i, next_obj)

\* The path of cc_link_progs for two or more lists.
LinkMerge(vm, heap, ps, cnt) ==
    LET st0 == [ vm |-> vm, objs |-> heap, escaped |-> FALSE,
                 symbol_map |-> [n \in Names |-> NULL],
                 merged |-> NULL, tail |-> NULL ]
        st1 == FirstPass(st0, ps, cnt, 1, ps[1])
    IN IF st1.escaped THEN st1 ELSE SecondPass(st1, ps, cnt, 1, ps[1])

cc_link_progs_NoFastPath(vm, heap, ps, cnt) == LinkMerge(vm, heap, ps, cnt)

\* Obj *cc_link_progs(CAST *vm, Obj **progs, int count), called with valid
\* arguments: the resulting session and heap, the value returned, and
\* whether the call was left by the non-local escape instead.
cc_link_progs(vm, heap, ps, cnt) ==
    IF cnt = 1
    THEN [ vm |-> vm, objs |-> heap, escaped |-> FALSE, merged |-> ps[1] ]
    ELSE LinkMerge(vm, heap, ps, cnt)


\* ------------------------------------------------------------------------
\* A caller of cc_link_progs
\* ------------------------------------------------------------------------

\* The heap holding n objects in scan order, object i of name nm[i] and
\* shape fl[i] in list un[i].  Every declaration has a Type of its own.
MakeHeap(n, nm, fl, un) ==
    [i \in 1..n |->
        [ name          |-> nm[i],
          ty            |-> i,
          is_function   |-> fl[i].is_function,
          is_definition |-> fl[i].is_definition,
          body          |-> IF fl[i].body = NULL THEN NULL ELSE i,
          init_data     |-> IF fl[i].init_data = NULL THEN NULL ELSE i,
          tok           |-> i,
          next          |-> IF i < n /\ un[i + 1] = un[i] THEN i + 1 ELSE NULL ]]

\* The head of each of the cnt lists.
MakeProgs(n, un, cnt) ==
    [u \in 1..cnt |->
        IF \E i \in 1..n : un[i] = u
        THEN CHOOSE i \in 1..n : un[i] = u /\ \A j \in 1..n : un[j] = u => i <= j
        ELSE NULL]

\* The sessions cc_link_progs is called with: as cc_init leaves it, or with
\* error collection switched on and a bound on the list.
LinkSessions ==
    {cc_init} \cup
    {[cc_init EXCEPT !.collect_errors = TRUE, !.max_errors = m] : m \in 1..MaxErrors}

\* main's option variables, for a caller that is not main.
NoOptions ==
    [ preprocess_only |-> FALSE, print_tokens |-> FALSE, output_json |-> FALSE,
      dump_ast |-> FALSE, out_file |-> FALSE, max_errors |-> DEFAULT_MAX_ERRORS,
      stdin_only |-> FALSE ]

InitLink ==
    \E n \in 0..MaxObjs, cnt \in 1..MaxUnits :
      \E nm \in [1..n -> Names], fl \in [1..n -> Flavours], un \in [1..n -> 1..cnt] :
        /\ \A i \in 1..n : \A j \in 1..n : i <= j => un[i] <= un[j]
        \* names are interchangeable: the first object is called "a"
        /\ n >= 1 => nm[1] = "a"
        /\ objs = MakeHeap(n, nm, fl, un)
        /\ objs0 = objs
        /\ progs = MakeProgs(n, un, cnt)
        /\ count = cnt
        /\ cc \in LinkSessions
        /\ merged = NULL
        /\ lpc = "call"
        /\ nlinks = 0
        /\ pc = "library"
        /\ opt = NoOptions
        /\ exit_code = 0
        /\ idx = 0
        /\ calls = << >>
        /\ open_files = 0
        /\ inited = TRUE
        /\ jumped = FALSE
        /\ IdleCli

\* merged = cc_link_progs(&cc, progs, count); the call returns.
LinkReturn ==
    /\ lpc = "call"
    /\ LET r == cc_link_progs(cc, objs, progs, count)
       IN /\ ~r.escaped
          /\ cc' = r.vm
          /\ objs' = r.objs
          /\ merged' = r.merged
    /\ lpc' = "returned"
    /\ nlinks' = nlinks + 1
    /\ UNCHANGED <<objs0, cliVars, libVars, progs, count, driverVars>>

\* The call is left through the escape: nothing is returned.
LinkEscape ==
    /\ lpc = "call"
    /\ LET r == cc_link_progs(cc, objs, progs, count)
       IN /\ r.escaped
          /\ cc' = r.vm
          /\ objs' = r.objs
    /\ lpc' = "escaped"
    /\ nlinks' = nlinks + 1
    /\ UNCHANGED <<objs0, cliVars, libVars, progs, count, merged, driverVars>>

\* The result of linking one unit is linked again, as one unit.
Relink ==
    /\ lpc = "returned"
    /\ count = 1
    /\ nlinks < MaxLinks
    /\ LET r == cc_link_progs(cc, objs, <<merged>>, 1)
       IN /\ ~r.escaped
          /\ cc' = r.vm
          /\ objs' = r.objs
          /\ merged' = r.merged
    /\ nlinks' = nlinks + 1
    /\ UNCHANGED <<objs0, cliVars, libVars, progs, count, lpc, driverVars>>

NextLink == LinkReturn \/ LinkEscape \/ Relink

SpecLink == InitLink /\ [][NextLink]_vars


\* ------------------------------------------------------------------------
\* The driver: main
\* ------------------------------------------------------------------------

\* bool cc_has_errors(CAST *vm)
cc_has_errors(vm) == vm.error_count > 0

\* What cc_parse returns for an input file: the top-level objects of the
\* unit, each a name and a shape.
ParsedUnits ==
    { <<[name |-> "a", fl |-> [is_function |-> FALSE, is_definition |-> TRUE,
                                body |-> 0, init_data |-> 1]]>>,               \* int a = 1;
      <<[name |-> "a", fl |-> [is_function |-> FALSE, is_definition |-> FALSE,
                                body |-> 0, init_data |-> 0]]>> }              \* extern int a;

\* The heap with the objects of unit u allocated after those it holds.
AllocUnit(heap, u) ==
    heap \o [k \in 1..Len(u) |->
        [ name          |-> u[k].name,
          ty            |-> Len(heap) + k,
          is_function   |-> u[k].fl.is_function,
          is_definition |-> u[k].fl.is_definition,
          body          |-> IF u[k].fl.body = NULL THEN NULL ELSE Len(heap) + k,
          init_data     |-> IF u[k].fl.init_data = NULL THEN NULL ELSE Len(heap) + k,
          tok           |-> Len(heap) + k,
          next          |-> IF k < Len(u) THEN Len(heap) + k + 1 ELSE NULL ]]

\* The option variables as the getopt_long loop and the collection of the
\* input files can leave them.
Options ==
    [ preprocess_only : BOOLEAN, print_tokens : BOOLEAN, output_json : BOOLEAN,
      dump_ast : BOOLEAN, out_file : BOOLEAN, max_errors : 1..MaxErrors,
      stdin_only : BOOLEAN ]

Init ==
    /\ opt \in Options
    /\ count \in 1..MaxFiles
    /\ opt.stdin_only => count = 1
    /\ pc = "read_stdin"
    /\ exit_code = 0
    /\ idx = 0
    /\ calls = << >>
    /\ open_files = 0
    /\ inited = FALSE
    /\ jumped = FALSE
    /\ cc = cc_init
    /\ objs = << >>
    /\ objs0 = << >>
    /\ progs = [u \in 1..count |-> NULL]
    /\ merged = NULL
    /\ lpc = "main"
    /\ nlinks = 0
    /\ IdleCli

\* goto BAIL: cc_destroy(&cc), the frees, return exit_code.
Bail ==
    /\ pc = "BAIL"
    /\ calls' = Append(calls, "cc_destroy")
    /\ pc' = "done"
    /\ UNCHANGED <<cc, objs, objs0, cliVars, libVars, progs, count, merged, lpc, nlinks,
                   opt, exit_code, idx, open_files, inited, jumped>>

\* goto BAIL taken before cc_init: cc_destroy reads a CAST that holds
\* whatever the stack held.  It can come back (Bail) or free a wild pointer
\* and end the process there.
BailCrashes ==
    /\ pc = "BAIL"
    /\ ~inited
    /\ calls' = Append(calls, "cc_destroy")
    /\ pc' = "crashed"
    /\ UNCHANGED <<cc, objs, objs0, cliVars, libVars, progs, count, merged, lpc, nlinks,
                   opt, exit_code, idx, open_files, inited, jumped>>

\* The only input is "-" and read_stdin_to_tmp returns NULL.
StdinFail ==
    /\ pc = "read_stdin"
    /\ opt.stdin_only
    /\ calls' = Append(calls, "error: failed to read stdin")
    /\ exit_code' = 1
    /\ pc' = "BAIL"
    /\ UNCHANGED <<cc, objs, objs0, cliVars, libVars, progs, count, merged, lpc, nlinks,
                   opt, idx, open_files, inited, jumped>>

\* cc_init(&cc, 0); the error settings; setjmp(err_buf) returns 0.
SessionInit ==
    /\ pc = "read_stdin"
    /\ cc' = [cc_init EXCEPT !.collect_errors = TRUE, !.max_errors = opt.max_errors]
    /\ inited' = TRUE
    /\ calls' = Append(calls, "cc_init")
    /\ pc' = "configure"
    /\ UNCHANGED <<objs, objs0, cliVars, libVars, progs, count, merged, lpc, nlinks,
                   opt, exit_code, idx, open_files, jumped>>

\* The include paths, the macros, skip_preprocess, calloc of input_tokens.
Configure ==
    /\ pc = "configure"
    /\ calls' = Append(calls, "configure")
    /\ idx' = 1
    /\ pc' = "preprocess"
    /\ UNCHANGED <<cc, objs, objs0, cliVars, libVars, progs, count, merged, lpc, nlinks,
                   opt, exit_code, open_files, inited, jumped>>

\* input_tokens[i] = cc_preprocess(&cc, input_files[i]) is entered.
PreprocessCall ==
    /\ pc = "preprocess"
    /\ calls' = Append(calls, "cc_preprocess")
    /\ pc' = "in_preprocess"
    /\ UNCHANGED <<cc, objs, objs0, cliVars, libVars, progs, count, merged, lpc, nlinks,
                   opt, exit_code, idx, open_files, inited, jumped>>

\* Inside cc_preprocess or cc_parse an error is raised at a token.  With
\* the escape taken, control is back in main where setjmp returns non-zero.
RaiseError ==
    /\ pc \in {"in_preprocess", "in_parse"}
    /\ LET r == error_tok(cc, idx, [kind |-> pc, name |-> ""])
       IN /\ cc' = r.vm
          /\ pc' = IF r.escaped THEN "handler" ELSE pc
          /\ jumped' = r.escaped
    /\ UNCHANGED <<objs, objs0, cliVars, libVars, progs, count, merged, lpc, nlinks,
                   opt, exit_code, idx, calls, open_files, inited>>

\* Inside cc_preprocess a warning is raised.
RaiseWarning ==
    /\ pc = "in_preprocess"
    /\ cc.warning_count < MaxWarnings
    /\ cc' = [cc EXCEPT !.warning_count = @ + 1]
    /\ UNCHANGED <<objs, objs0, cliVars, libVars, progs, count, merged, lpc, nlinks,
                   pc, opt, exit_code, idx, calls, open_files, inited, jumped>>

\* must_tokenize_file cannot read the file: error() does not return, the
\* process ends there with status 1.
ReadFail ==
    /\ pc = "in_preprocess"
    /\ calls' = Append(calls, "error: cannot read")
    /\ pc' = "exited"
    /\ UNCHANGED <<cc, objs, objs0, cliVars, libVars, progs, count, merged, lpc, nlinks,
                   opt, exit_code, idx, open_files, inited, jumped>>

\* cc_preprocess returns a token list; the loop goes on.
PreprocessReturn ==
    /\ pc = "in_preprocess"
    /\ idx' = idx + 1
    /\ pc' = IF idx < count THEN "preprocess" ELSE "pp_check"
    /\ UNCHANGED <<cc, objs, objs0, cliVars, libVars, progs, count, merged, lpc, nlinks,
                   opt, exit_code, calls, open_files, inited, jumped>>

\* cc_preprocess or cc_parse returns NULL: "failed to ...", goto BAIL.
StageNull ==
    /\ pc \in {"in_preprocess", "in_parse"}
    /\ calls' = Append(calls, IF pc = "in_preprocess" THEN "error: failed to preprocess"
                                                     ELSE "error: failed to parse")
    /\ exit_code' = 1
    /\ pc' = "BAIL"
    /\ UNCHANGED <<cc, objs, objs0, cliVars, libVars, progs, count, merged, lpc, nlinks,
                   opt, idx, open_files, inited, jumped>>

\* Whether the check after the preprocessing loop ends the run.
PreprocessCheckFails_Never(vm) == FALSE

PreprocessCheckFails_OnWarnings(vm) == cc_has_errors(vm) \/ vm.warning_count > 0

PreprocessCheckFails(vm) == cc_has_errors(vm)

\* -P is looked at before -E.
ModeAfterPreprocess_TokensFirst(o) ==
    IF o.print_tokens THEN "emit_P"
    ELSE IF o.preprocess_only THEN "emit_E"
    ELSE "parse"

\* if (preprocess_only) { ... goto BAIL; } if (print_tokens) { ... goto BAIL; }
\* and then the parser.
ModeAfterPreprocess(o) ==
    IF o.preprocess_only THEN "emit_E"
    ELSE IF o.print_tokens THEN "emit_P"
    ELSE "parse"

\* Check for preprocessing errors, then choose -E, -P or the parser.
PreprocessCheck ==
    /\ pc = "pp_check"
    /\ calls' = IF cc_has_errors(cc) \/ cc.warning_count > 0
                THEN Append(calls, "cc_print_all_errors") ELSE calls
    /\ IF PreprocessCheckFails(cc)
       THEN exit_code' = 1 /\ pc' = "BAIL" /\ idx' = idx
       ELSE /\ exit_code' = exit_code
            /\ idx' = 1
            /\ pc' = ModeAfterPreprocess(opt)
    /\ UNCHANGED <<cc, objs, objs0, cliVars, libVars, progs, count, merged, lpc, nlinks,
                   opt, open_files, inited, jumped>>

\* fopen(out_file, "a"): what the file holds is kept.
fopen_a(files) == IF "out" \in DOMAIN files THEN files["out"] ELSE << >>

\* fopen(out_file, "w"): the file is created empty or truncated.
fopen_w(files) == << >>

\* text is written to f: the file out_file names, or stdout.
OutputTo(text) ==
    IF opt.out_file
    THEN fs' = [fs EXCEPT !["out"] = Append(@, text)] /\ stdout' = stdout
    ELSE stdout' = Append(stdout, text) /\ fs' = fs

\* FILE *f = out_file ? fopen(out_file, "w") : stdout; and f is not NULL.
OpenOutput ==
    /\ pc \in {"emit_E", "emit_j", "emit_a"}
    /\ IF opt.out_file
       THEN open_files' = open_files + 1 /\ calls' = Append(calls, "fopen")
       ELSE open_files' = open_files /\ calls' = calls
    /\ pc' = CASE pc = "emit_E" -> "write_E" [] pc = "emit_j" -> "write_j"
               [] OTHER -> "write_a"
    /\ fs' = IF opt.out_file THEN ("out" :> fopen_w(fs)) @@ fs ELSE fs
    /\ stdout' = stdout
    /\ UNCHANGED <<cc, objs, objs0, cliRest, libRest, progs, count, merged, lpc, nlinks,
                   opt, exit_code, idx, inited, jumped>>

\* fopen returns NULL: "failed to open output file", goto BAIL.
OpenOutputFail ==
    /\ pc \in {"emit_E", "emit_j", "emit_a"}
    /\ opt.out_file
    /\ calls' = Append(calls, "error: failed to open output file")
    /\ exit_code' = 1
    /\ pc' = "BAIL"
    /\ UNCHANGED <<cc, objs, objs0, cliVars, libVars, progs, count, merged, lpc, nlinks,
                   opt, idx, open_files, inited, jumped>>

\* The output is written to f; fclose(f) unless f is stdout.
CloseOutput_NoClose(call) ==
    /\ calls' = Append(calls, call)
    /\ open_files' = open_files

CloseOutput(call) ==
    /\ calls' = IF opt.out_file THEN calls \o <<call, "fclose">> ELSE Append(calls, call)
    /\ open_files' = IF opt.out_file THEN open_files - 1 ELSE open_files

\* -E: cc_output_preprocessed(f, input_tokens[i]) for each input file.
WritePreprocessed ==
    /\ pc = "write_E"
    /\ CloseOutput("cc_output_preprocessed")
    /\ idx' = idx + 1
    /\ pc' = IF idx < count THEN "emit_E" ELSE "BAIL"
    /\ OutputTo([call |-> "cc_output_preprocessed", unit |-> idx])
    /\ UNCHANGED <<cc, objs, objs0, cliRest, libRest, progs, count, merged, lpc, nlinks,
                   opt, exit_code, inited, jumped>>

\* -P: cc_print_tokens(input_tokens[i]) for each input file.
PrintTokens ==
    /\ pc = "emit_P"
    /\ calls' = Append(calls, "cc_print_tokens")
    /\ idx' = idx + 1
    /\ pc' = IF idx < count THEN "emit_P" ELSE "BAIL"
    /\ stdout' = Append(stdout, [call |-> "cc_print_tokens", unit |-> idx])
    /\ fs' = fs
    /\ UNCHANGED <<cc, objs, objs0, cliRest, libRest, progs, count, merged, lpc, nlinks,
                   opt, exit_code, open_files, inited, jumped>>

\* input_progs[i] = cc_parse(&cc, input_tokens[i]) is entered.
ParseCall ==
    /\ pc = "parse"
    /\ calls' = Append(calls, "cc_parse")
    /\ pc' = "in_parse"
    /\ UNCHANGED <<cc, objs, objs0, cliVars, libVars, progs, count, merged, lpc, nlinks,
                   opt, exit_code, idx, open_files, inited, jumped>>

\* cc_parse returns the objects of the unit; the loop goes on.
ParseReturn ==
    /\ pc = "in_parse"
    /\ \E u \in ParsedUnits :
          /\ objs' = AllocUnit(objs, u)
          /\ progs' = [progs EXCEPT ![idx] = Len(objs) + 1]
    /\ idx' = idx + 1
    /\ pc' = IF idx < count THEN "parse" ELSE "parse_check"
    /\ UNCHANGED <<cc, objs0, cliVars, libVars, count, merged, lpc, nlinks,
                   opt, exit_code, calls, open_files, inited, jumped>>

\* Check for parsing errors.
ParseCheck ==
    /\ pc = "parse_check"
    /\ IF cc_has_errors(cc)
       THEN /\ calls' = Append(calls, "cc_print_all_errors")
            /\ exit_code' = 1
            /\ pc' = "BAIL"
       ELSE /\ calls' = calls
            /\ exit_code' = exit_code
            /\ pc' = "link"
    /\ UNCHANGED <<cc, objs, objs0, cliVars, libVars, progs, count, merged, lpc, nlinks,
                   opt, idx, open_files, inited, jumped>>

\* merged_prog = cc_link_progs(&cc, input_progs, input_files_count), then
\* the choice of -j, -a or the summary.
Link ==
    /\ pc = "link"
    /\ LET r == cc_link_progs(cc, objs, progs, count)
       IN /\ cc' = r.vm
          /\ objs' = r.objs
          /\ jumped' = r.escaped
          /\ IF r.escaped
             THEN merged' = merged /\ pc' = "handler"
             ELSE /\ merged' = IF r.merged = NULL /\ count = 1 THEN progs[1] ELSE r.merged
                  /\ pc' = IF opt.output_json THEN "emit_j"
                           ELSE IF opt.dump_ast THEN "emit_a"
                           ELSE "summary"
    /\ calls' = Append(calls, "cc_link_progs")
    /\ nlinks' = nlinks + 1
    /\ UNCHANGED <<objs0, cliVars, libVars, progs, count, lpc, opt, exit_code, idx, open_files, inited>>

\* -j: cc_output_json(f, merged_prog).
WriteJson ==
    /\ pc = "write_j"
    /\ CloseOutput("cc_output_json")
    /\ pc' = "BAIL"
    /\ OutputTo([call |-> "cc_output_json", unit |-> 0])
    /\ UNCHANGED <<cc, objs, objs0, cliRest, libRest, progs, count, merged, lpc, nlinks,
                   opt, exit_code, idx, inited, jumped>>

\* -a: cc_print_ast(&cc, merged_prog), to f or to stdout.
WriteAst ==
    /\ pc = "write_a"
    /\ CloseOutput("cc_print_ast")
    /\ pc' = "BAIL"
    /\ OutputTo([call |-> "cc_print_ast", unit |-> 0])
    /\ UNCHANGED <<cc, objs, objs0, cliRest, libRest, progs, count, merged, lpc, nlinks,
                   opt, exit_code, idx, inited, jumped>>

\* Default: "Successfully parsed %d file(s)" and the counts.
Summary ==
    /\ pc = "summary"
    /\ calls' = Append(calls, "printf summary")
    /\ pc' = "BAIL"
    /\ stdout' = Append(stdout, [call |-> "printf summary", unit |-> 0])
    /\ fs' = fs
    /\ UNCHANGED <<cc, objs, objs0, cliRest, libRest, progs, count, merged, lpc, nlinks,
                   opt, exit_code, idx, open_files, inited, jumped>>

\* The exit code the setjmp handler sets.
HandlerExitCode_Kept(code) == code

HandlerExitCode(code) == 1

\* if (setjmp(err_buf) != 0) { cc_print_all_errors; exit_code = 1; goto BAIL; }
Handler ==
    /\ pc = "handler"
    /\ calls' = Append(calls, "cc_print_all_errors")
    /\ exit_code' = HandlerExitCode(exit_code)
    /\ pc' = "BAIL"
    /\ UNCHANGED <<cc, objs, objs0, cliVars, libVars, progs, count, merged, lpc, nlinks,
                   opt, idx, open_files, inited, jumped>>

Next ==
    \/ StdinFail \/ SessionInit \/ Configure
    \/ PreprocessCall \/ RaiseError \/ RaiseWarning \/ ReadFail
    \/ PreprocessReturn \/ StageNull \/ PreprocessCheck
    \/ OpenOutput \/ OpenOutputFail \/ WritePreprocessed \/ PrintTokens
    \/ ParseCall \/ ParseReturn \/ ParseCheck \/ Link
    \/ WriteJson \/ WriteAst \/ Summary \/ Handler \/ Bail \/ BailCrashes

Spec == Init /\ [][Next]_vars

\* The status the process ends with: main's return value, or 1 from error().
ExitStatus == IF pc = "exited" THEN 1 ELSE exit_code

\* Sessions used through the library alone together with runs of main.
SpecAll == (Init \/ InitLink) /\ [][Next \/ NextLink]_vars

\* ------------------------------------------------------------------------
\* Properties of cc_link_progs
\* ------------------------------------------------------------------------

\* The elements of sequence q.
Range(q) == {q[k] : k \in 1..Len(q)}

\* The addresses on the list that starts at p, in list order.
RECURSIVE ListFrom(_, _, _)
ListFrom(heap, p, fuel) ==
    IF p = NULL \/ fuel = 0 THEN << >>
    ELSE <<p>> \o ListFrom(heap, heap[p].next, fuel - 1)

\* The list cc_link_progs returned.
Result == ListFrom(objs, merged, Len(objs))

\* The objects handed to cc_link_progs, by address (= scan position).
Inputs == DOMAIN objs0

\* A definition, in the words of the claims: is_definition set, or a
\* function with a body, or a variable with init_data.
IsDefinition(o) ==
    o.is_definition \/ (o.is_function /\ o.body # NULL) \/ (~o.is_function /\ o.init_data # NULL)

\* Two input objects of one list, of one name.
UnitRepeatsName ==
    \E i \in Inputs : objs0[i].next # NULL /\
        \E j \in Inputs : j > i /\ objs0[j].name = objs0[i].name /\
            j \in {ListFrom(objs0, i, Len(objs0))[k] : k \in 1..Len(ListFrom(objs0, i, Len(objs0)))}

NoDuplicateName ==
    \A i \in 1..Len(Result) : \A j \in 1..Len(Result) :
        i # j => objs[Result[i]].name # objs[Result[j]].name

\* C1 as stated: for every call, count = 1 included, the returned list
\* never contains two objects with the same name.
C1_NeverDuplicateName ==
    lpc = "returned" => NoDuplicateName

\* C1 amended: for count >= 2 the returned list never contains two objects
\* with the same name; for count = 1 the list is progs[0] as it stands and
\* is free of duplicate names when that unit is.
C1_NoDuplicateNameWhenMerging ==
    (lpc = "returned" /\ (count >= 2 \/ ~UnitRepeatsName)) => NoDuplicateName

\* C1: two or more lists, one of which holds a name twice, have been linked.
C1_Witness ==
    lpc = "returned" /\ count >= 2 /\ UnitRepeatsName /\ Len(Result) >= 2

\* The scan position at which name n is first seen (0: never).
FirstSeen(n) ==
    IF \E i \in Inputs : objs0[i].name = n
    THEN CHOOSE i \in Inputs : objs0[i].name = n /\ \A j \in Inputs : objs0[j].name = n => i <= j
    ELSE 0

\* C2 as stated: if name a is first seen before name b, the object emitted
\* for a precedes the object emitted for b (each name being emitted once).
C2_FirstSeenOrderOfNames ==
    (lpc = "returned" /\ NoDuplicateName) =>
        \A p \in 1..Len(Result) : \A q \in 1..Len(Result) :
            FirstSeen(objs[Result[p]].name) < FirstSeen(objs[Result[q]].name) => p < q

\* C2 amended: the returned list keeps the scan order of the emitted
\* objects themselves: the object emitted for a precedes the one emitted
\* for b exactly when it comes first in the scan of progs[0], progs[1], ...;
\* a name declared early and defined later is emitted at the place of its
\* definition, so it can follow a name that was first seen after it.
C2_ScanOrderOfEmittedObjects ==
    lpc = "returned" =>
        \A p \in 1..Len(Result) : \A q \in 1..Len(Result) :
            p < q <=> Result[p] < Result[q]

\* C2: a is declared in the first list and defined in a later one, b comes
\* in between, and both were emitted.
C2_Witness ==
    /\ lpc = "returned" /\ count >= 2 /\ Len(Result) = 2
    /\ \E i \in Inputs : \E j \in Inputs : \E k \in Inputs :
          /\ i < j /\ j < k
          /\ objs0[i].name = "a" /\ ~IsDefinition(objs0[i])
          /\ objs0[j].name = "b"
          /\ objs0[k].name = "a" /\ IsDefinition(objs0[k])
          /\ objs0[j].next = NULL /\ progs[2] = k

\* C3: for count >= 2, a name with at least one definition among the input
\* objects is emitted as a definition, wherever the definition stands.
C3_DefinitionPreferred ==
    (lpc = "returned" /\ count >= 2) =>
        \A i \in Inputs : IsDefinition(objs0[i]) =>
            \E p \in 1..Len(Result) :
                /\ objs[Result[p]].name = objs0[i].name
                /\ IsDefinition(objs[Result[p]])

\* C3: a name declared, then defined, then declared again was linked.
C3_Witness ==
    /\ lpc = "returned" /\ count >= 2
    /\ \E i \in Inputs : \E j \in Inputs : \E k \in Inputs :
          /\ i < j /\ j < k
          /\ objs0[i].name = objs0[j].name /\ objs0[j].name = objs0[k].name
          /\ ~IsDefinition(objs0[i]) /\ IsDefinition(objs0[j]) /\ ~IsDefinition(objs0[k])

\* The errors cc_link_progs reported: those on the session's list and the
\* one that took the escape.
Reported ==
    {cc.errors[k] : k \in 1..Len(cc.errors)} \cup
    {cc.error_message[k] : k \in 1..Len(cc.error_message)}

\* Input object j is a definition that follows a definition of its name.
IsLaterDefinition(j) ==
    /\ IsDefinition(objs0[j])
    /\ \E i \in Inputs : i < j /\ objs0[i].name = objs0[j].name /\ IsDefinition(objs0[i])

\* C4: for count >= 2, cc_link_progs reports "redefinition of <name>"
\* exactly when two input objects of one name are both definitions, at the
\* later object's token; with no such pair it reports nothing.
C4_RedefinitionReported ==
    (lpc \in {"returned", "escaped"} /\ count >= 2) =>
        /\ (Reported # {}) <=> (\E j \in Inputs : IsLaterDefinition(j))
        /\ \A e \in Reported :
              /\ e.msg.kind = "redefinition"
              /\ \E j \in Inputs : /\ objs0[j].tok = e.tok
                                   /\ objs0[j].name = e.msg.name
                                   /\ IsLaterDefinition(j)
        /\ lpc = "returned" =>
              \A j \in Inputs : IsLaterDefinition(j) =>
                  \E e \in Reported : e.tok = objs0[j].tok

\* C4: a redefinition was reported and cc_link_progs returned.
C4_Witness ==
    lpc = "returned" /\ count >= 2 /\ Len(cc.errors) >= 1

\* C5 as stated: after any call returns, every input object has the ty of
\* the object emitted for its name.
C5_TypePropagatedAlways ==
    lpc = "returned" =>
        \A i \in Inputs : \A p \in 1..Len(Result) :
            objs[Result[p]].name = objs[i].name => objs[i].ty = objs[Result[p]].ty

\* C5 amended: after a call with count >= 2 returns, every object of every
\* input list has the ty of the object emitted for its name, also when the
\* emitted object is only a declaration; a call with count = 1 changes no
\* object.
C5_TypePropagatedWhenMerging ==
    (lpc = "returned" /\ count >= 2) =>
        \A i \in Inputs : \E p \in 1..Len(Result) :
            /\ objs[Result[p]].name = objs[i].name
            /\ objs[i].ty = objs[Result[p]].ty
            /\ objs[Result[p]].ty = objs0[Result[p]].ty

\* C5: a name with two declarations and no definition was linked.
C5_Witness ==
    /\ lpc = "returned" /\ count >= 2
    /\ \E i \in Inputs : \E j \in Inputs :
          /\ i < j /\ objs0[i].name = objs0[j].name
          /\ \A k \in Inputs : objs0[k].name = objs0[i].name => ~IsDefinition(objs0[k])
          /\ objs[j].ty = objs0[i].ty

\* C6: with count = 1 cc_link_progs returns progs[0] itself and changes no
\* field of any object, so linking its result again gives the same list.
C6_SingleUnitIdentity ==
    (lpc = "returned" /\ count = 1) =>
        /\ merged = progs[1]
        /\ objs = objs0
        /\ Result = ListFrom(objs0, progs[1], Len(objs0))
        /\ Reported = {}

\* C6: a unit holding a name twice was linked alone, and its result again.
C6_Witness ==
    lpc = "returned" /\ count = 1 /\ nlinks = 2 /\ UnitRepeatsName

\* ------------------------------------------------------------------------
\* Properties of main
\* ------------------------------------------------------------------------

\* How often call c occurs in main's calls.
CountCalls(c) == Cardinality({k \in 1..Len(calls) : calls[k] = c})

\* main has returned, or the process has ended inside error().
Ended == pc \in {"done", "exited"}

\* C7: whenever an error was recorded at any stage (reading the input,
\* preprocessing, parsing, linking), the CLI exits with code 1.
C7_RecordedErrorExitsOne ==
    (Ended /\ (Reported # {} \/ "error: cannot read" \in Range(calls)
                             \/ "error: failed to read stdin" \in Range(calls)))
        => ExitStatus = 1

\* The input preprocessed and, where the mode parses, parsed: every call
\* of cc_preprocess and cc_parse returned a list, and none of them
\* recorded an error.
InputClean ==
    /\ pc = "done"
    /\ CountCalls("cc_preprocess") = count
    /\ ~(opt.preprocess_only \/ opt.print_tokens) => CountCalls("cc_parse") = count
    /\ "error: failed to preprocess" \notin Range(calls)
    /\ "error: failed to parse" \notin Range(calls)
    /\ \A e \in Reported : e.msg.kind = "redefinition"

C9_SessionReleased ==
    (pc = "done" /\ inited) =>
        /\ CountCalls("cc_destroy") = 1
        /\ calls[Len(calls)] = "cc_destroy"
        /\ open_files = 0
        /\ CountCalls("fopen") = CountCalls("fclose")

\* C9: main returned after writing to a file it opened; (the escape and the
\* failed fopen are reached too: C10_Witness, C8_CleanInputExitsZero).
C9_Witness ==
    pc = "done" /\ inited /\ CountCalls("fopen") >= 2 /\ open_files = 0

\* The stage calls during which the escape can be taken.
Stages == {"cc_preprocess", "cc_parse", "cc_link_progs"}

\* C10: with error collection on, the list never holds more than
\* max_errors errors; the error that would exceed the bound takes the
\* escape to main's setjmp handler, which prints the collected errors and
\* sets exit code 1 without running any later stage.  With collection off,
\* the first error takes the escape.
C10_BoundedErrorList ==
    /\ cc.error_count = Len(cc.errors)
    /\ cc.collect_errors => Len(cc.errors) <= cc.max_errors
    /\ (jumped /\ cc.collect_errors) =>
          /\ Len(cc.errors) = cc.max_errors
          /\ Len(cc.error_message) = 1
    /\ (jumped /\ pc = "handler") => calls[Len(calls)] \in Stages
    /\ (jumped /\ pc = "done") =>
          /\ exit_code = 1
          /\ Len(calls) >= 3
          /\ calls[Len(calls) - 2] \in Stages
          /\ calls[Len(calls) - 1] = "cc_print_all_errors"
          /\ calls[Len(calls)] = "cc_destroy"
    /\ ~cc.collect_errors =>
          /\ cc.errors = << >>
          /\ (lpc = "returned" /\ count >= 2) =>
                 ~\E j \in Inputs : IsLaterDefinition(j)
          /\ lpc = "escaped" => Len(cc.error_message) = 1

\* C10: main returned after the escape was taken with a full error list.
C10_Witness ==
    pc = "done" /\ jumped /\ Len(cc.errors) = cc.max_errors /\ cc.max_errors >= 2

\* No output flag was given: main runs in its default mode.
DefaultMode ==
    ~(opt.preprocess_only \/ opt.print_tokens \/ opt.output_json \/ opt.dump_ast)

\* The calls of main that write to standard output.
StdoutCalls ==
    {"printf summary", "cc_print_tokens"} \cup
    (IF opt.out_file THEN {}
     ELSE {"cc_output_preprocessed", "cc_output_json", "cc_print_ast"})

\* C11: run with input files only and no output flag, the CLI writes
\* nothing to standard output when parsing succeeds.
C11_DefaultModeSilent ==
    (pc = "done" /\ DefaultMode /\ exit_code = 0 /\ CountCalls("cc_parse") = count)
        => Range(calls) \cap StdoutCalls = {}

\* Every call c in main's calls comes before every call d.
AllBefore(c, d) ==
    \A i \in 1..Len(calls) : \A j \in 1..Len(calls) :
        (calls[i] = c /\ calls[j] = d) => i < j

\* An error raised during the given stage has been reported.
StageReported(stage) == \E e \in Reported : e.msg.kind = stage

\* C18: main runs the pipeline in layers: the configuration is applied
\* before the first cc_preprocess, every input file is preprocessed before
\* any is parsed, every file is parsed before cc_link_progs is called,
\* cc_parse is never called when preprocessing recorded an error and
\* cc_link_progs is never called when parsing recorded an error.
C18_StrictLayers ==
    /\ "cc_preprocess" \in Range(calls) =>
          /\ CountCalls("configure") = 1
          /\ AllBefore("configure", "cc_preprocess")
    /\ "cc_parse" \in Range(calls) =>
          /\ CountCalls("cc_preprocess") = count
          /\ AllBefore("cc_preprocess", "cc_parse")
          /\ ~StageReported("in_preprocess")
    /\ "cc_link_progs" \in Range(calls) =>
          /\ CountCalls("cc_parse") = count
          /\ AllBefore("cc_parse", "cc_link_progs")
          /\ ~StageReported("in_parse")
          /\ ~StageReported("in_preprocess")

\* C18: main returned after preprocessing every one of several files
\* with an error recorded, and not through the escape.
C18_Witness ==
    /\ pc = "done" /\ ~jumped /\ count >= 2
    /\ CountCalls("cc_preprocess") = count
    /\ StageReported("in_preprocess")

\* ------------------------------------------------------------------------
\* Tokens, tokenize_file, preprocess and cc_preprocess
\* ------------------------------------------------------------------------
\* The text of a file is a sequence of lexemes [kind, name]: an identifier,
\* a punctuator, the directive #pragma once, or the directive #include of the
\* file called name.  A Token carries the lexeme, its hide-set and the file it
\* comes from; a token list is a sequence that ends with the EOF token.

EofToken(path) == [kind |-> "eof", name |-> "", hideset |-> {}, file |-> path]

\* The tokens of the text of the file at path, EOF included.
Tokenize(text, path) ==
    [i \in 1..(Len(text) + 1) |->
        IF i <= Len(text)
        THEN [kind |-> text[i].kind, name |-> text[i].name,
              hideset |-> {}, file |-> path]
        ELSE EofToken(path)]

\* tokenize_file: the token list of the file, or NULL (here << >>) when the
\* file cannot be read.  The path "-" names standard input.
tokenize_file(files, input, path) ==
    IF path = "-" THEN Tokenize(input, path)
    ELSE IF path \in DOMAIN files THEN Tokenize(files[path], path)
    ELSE << >>

\* A token list without its EOF token.
WithoutEof(tok) == SubSeq(tok, 1, Len(tok) - 1)

\* The hide-set of the tokens an expansion of macro name produces, hs being
\* the hide-set of the macro token (object-like) or the intersection of the
\* hide-sets of the macro token and of the closing parenthesis.
NewHideset_Same(hs, name) == hs

NewHideset(hs, name) == hs \cup {name}

\* The replacement list of macro m, cloned for a use in file, each token
\* with hide-set hs.
BodyTokens(m, hs, file) ==
    [i \in 1..Len(m.body) |->
        [kind |-> m.body[i].kind, name |-> m.body[i].name,
         hideset |-> hs, file |-> file]]

IsPunct(t, op) == t.kind = "punct" /\ t.name = op

\* Token t, followed by rest, is a macro use to be expanded: an identifier
\* that names a macro and does not hide it; a function-like macro also needs
\* its (empty) argument list.
ExpandsHere(comp, t, rest) ==
    /\ t.kind = "ident"
    /\ t.name \in DOMAIN comp.macros
    /\ t.name \notin t.hideset
    /\ \/ comp.macros[t.name].is_objlike
       \/ /\ Len(rest) >= 2
          /\ IsPunct(rest[1], "(")
          /\ IsPunct(rest[2], ")")

\* The token list after the macro use t has been replaced.
expand_macro(comp, t, rest) ==
    LET m == comp.macros[t.name]
    IN IF m.is_objlike
       THEN BodyTokens(m, NewHideset(t.hideset, t.name), t.file) \o rest
       ELSE BodyTokens(m, NewHideset(t.hideset \cap rest[2].hideset, t.name), t.file)
                \o SubSeq(rest, 3, Len(rest))

\* #include after #pragma once: the file is in the set.
IncludeIsNoOp_Never(comp, path) == FALSE

IncludeIsNoOp(comp, path) == path \in comp.pragma_once

\* #if, #ifdef, #ifndef: the directives that open a conditional group.
IsOpener(t) == t.kind \in {"if", "ifdef", "ifndef"}

\* The value of the condition of #if and #elif (the constant expression,
\* zero = false) and of #ifdef and #ifndef (the macro table).
CondValue(comp, t) ==
    CASE t.kind \in {"if", "elif"} -> t.name # "0"
      [] t.kind = "ifdef" -> t.name \in DOMAIN comp.macros
      [] t.kind = "ifndef" -> t.name \notin DOMAIN comp.macros

\* A new CondIncl on top of the stack.
push_cond_incl(stack, t, included) ==
    <<[ctx |-> "IN_THEN", tok |-> t, included |-> included]>> \o stack

\* The tokens after the #endif that closes the group whose opening
\* directive has just been passed, nested groups skipped with it.
RECURSIVE skip_cond_incl2(_)
skip_cond_incl2(toks) ==
    IF toks = << >> THEN << >>
    ELSE IF IsOpener(Head(toks)) THEN skip_cond_incl2(skip_cond_incl2(Tail(toks)))
    ELSE IF Head(toks).kind = "endif" THEN Tail(toks)
    ELSE skip_cond_incl2(Tail(toks))

\* The tokens from the next #elif, #else or #endif of the current group on,
\* nested groups skipped.
RECURSIVE skip_cond_incl(_)
skip_cond_incl(toks) ==
    IF toks = << >> THEN << >>
    ELSE IF IsOpener(Head(toks)) THEN skip_cond_incl(skip_cond_incl2(Tail(toks)))
    ELSE IF Head(toks).kind \in {"elif", "else", "endif"} THEN toks
    ELSE skip_cond_incl(Tail(toks))

\* #elif, #else or #endif without a group to belong to.
IsStray(stack, t) ==
    \/ stack = << >>
    \/ t.kind \in {"elif", "else"} /\ Head(stack).ctx = "IN_ELSE"

\* The branch of #elif is included whatever came before it.
ElifIncluded_IgnoresEarlier(top, val) == val

\* The branch of #elif is included when no earlier branch of the group was
\* and its condition is true.
ElifIncluded(top, val) == ~top.included /\ val

\* The preprocessor's scan of the tokens toks (no EOF): st.out collects the
\* output, st.comp is the session's compiler state, st.cond_incl is the
\* stack of conditional groups that are open, st.error is set by a stray
\* #elif, #else or #endif, and st.exhausted is set when the scan has not
\* ended after fuel steps.
RECURSIVE PreprocessScan(_, _, _, _)
PreprocessScan(st, files, toks, fuel) ==
    IF toks = << >> THEN st
    ELSE IF fuel = 0 THEN [st EXCEPT !.exhausted = TRUE]
    ELSE LET t == Head(toks)
             rest == Tail(toks)
         IN CASE t.kind = "pragma_once" ->
                   PreprocessScan([st EXCEPT !.comp.pragma_once = @ \cup {t.file}],
                                  files, rest, fuel - 1)
              [] t.kind = "include" ->
                   IF IncludeIsNoOp(st.comp, t.name) \/ t.name \notin DOMAIN files
                   THEN PreprocessScan(st, files, rest, fuel - 1)
                   ELSE PreprocessScan(st, files,
                            WithoutEof(Tokenize(files[t.name], t.name)) \o rest,
                            fuel - 1)
              [] IsOpener(t) ->
                   LET val == CondValue(st.comp, t)
                   IN PreprocessScan(
                          [st EXCEPT !.cond_incl = push_cond_incl(@, t, val)],
                          files, IF val THEN rest ELSE skip_cond_incl(rest), fuel - 1)
              [] t.kind \in {"elif", "else", "endif"} /\ IsStray(st.cond_incl, t) ->
                   [st EXCEPT !.error = TRUE]
              [] t.kind = "elif" /\ ~IsStray(st.cond_incl, t) ->
                   LET top == Head(st.cond_incl)
                   IN IF ElifIncluded(top, CondValue(st.comp, t))
                      THEN PreprocessScan(
                               [st EXCEPT !.cond_incl[1].ctx = "IN_ELIF",
                                          !.cond_incl[1].included = TRUE],
                               files, rest, fuel - 1)
                      ELSE PreprocessScan(
                               [st EXCEPT !.cond_incl[1].ctx = "IN_ELIF"],
                               files, skip_cond_incl(rest), fuel - 1)
              [] t.kind = "else" /\ ~IsStray(st.cond_incl, t) ->
                   PreprocessScan(
                       [st EXCEPT !.cond_incl[1].ctx = "IN_ELSE"], files,
                       IF Head(st.cond_incl).included THEN skip_cond_incl(rest) ELSE rest,
                       fuel - 1)
              [] t.kind = "endif" /\ ~IsStray(st.cond_incl, t) ->
                   PreprocessScan([st EXCEPT !.cond_incl = Tail(@)], files, rest, fuel - 1)
              [] ExpandsHere(st.comp, t, rest) ->
                   PreprocessScan(st, files, expand_macro(st.comp, t, rest), fuel - 1)
              [] OTHER ->
                   PreprocessScan([st EXCEPT !.out = Append(@, t)], files, rest, fuel - 1)

\* preprocess(vm, tok): the expanded token list with the directives removed
\* and EOF at the tail, and the compiler state it leaves.  error: a stray
\* #elif, #else or #endif, or a group left open at the end of the input.
preprocess(comp, files, tok) ==
    LET last == tok[Len(tok)]
        r == PreprocessScan([comp |-> comp, out |-> << >>, exhausted |-> FALSE,
                             cond_incl |-> << >>, error |-> FALSE],
                            files, WithoutEof(tok), MaxSteps)
    IN [comp |-> r.comp, tok |-> Append(r.out, last), exhausted |-> r.exhausted,
        error |-> r.error \/ (~r.exhausted /\ r.cond_incl # << >>)]

\* if (!vm->compiler.skip_preprocess)
RunsPreprocess_Always(comp) == TRUE

RunsPreprocess(comp) == ~comp.skip_preprocess

\* cc_preprocess(vm, path): must_tokenize_file ends the process through
\* error() when the file cannot be read (exited); otherwise the tokens are
\* handed to preprocess unless skip_preprocess is set.  called lists the
\* calls made.
cc_preprocess(comp, files, input, path) ==
    LET tok2 == tokenize_file(files, input, path)
    IN IF tok2 = << >>
       THEN [comp |-> comp, tok |-> << >>, exited |-> TRUE, exhausted |-> FALSE,
             called |-> <<"tokenize_file", "error">>]
       ELSE IF RunsPreprocess(comp)
       THEN LET r == preprocess(comp, files, tok2)
            IN [comp |-> r.comp, tok |-> r.tok, exited |-> FALSE,
                exhausted |-> r.exhausted,
                called |-> <<"tokenize_file", "preprocess">>]
       ELSE [comp |-> comp, tok |-> tok2, exited |-> FALSE, exhausted |-> FALSE,
             called |-> <<"tokenize_file">>]

\* ------------------------------------------------------------------------
\* main from the command line to the end of the preprocess loop
\* ------------------------------------------------------------------------

\* static struct option long_options[]: name -> the value getopt_long returns.
long_options ==
    [n \in {"help", "out", "verbose", "ast", "print-tokens", "preprocess",
            "no-preprocess", "json", "include", "isystem", "define", "undef",
            "max-errors", "Werror", "embed-limit", "embed-hard-limit"} |->
        CASE n = "help" -> "h"            [] n = "out" -> "o"
          [] n = "verbose" -> "v"         [] n = "ast" -> "a"
          [] n = "print-tokens" -> "P"    [] n = "preprocess" -> "E"
          [] n = "no-preprocess" -> "X"   [] n = "json" -> "j"
          [] n = "include" -> "I"         [] n = "isystem" -> "1001"
          [] n = "define" -> "D"          [] n = "undef" -> "U"
          [] n = "max-errors" -> "1002"   [] n = "Werror" -> "1003"
          [] n = "embed-limit" -> "1004"  [] n = "embed-hard-limit" -> "1005"]

\* const char *optstring = "haI:D:U:o:vPEXj": the option letters.
optstring == {"h", "a", "I", "D", "U", "o", "v", "P", "E", "X", "j"}

\* getopt_long on the option a: the value of the table entry or the option
\* letter, and '?' for an option that is in neither (opterr = 0).
getopt_long(a) ==
    IF a.form = "long"
    THEN IF a.name \in DOMAIN long_options THEN long_options[a.name] ELSE "?"
    ELSE IF a.name \in optstring THEN a.name ELSE "?"

\* The elements a command line is made of here: options without an argument
\* whose effect the model follows, one option the README documents, and
\* files.
Args ==
    { [form |-> "short", name |-> "E"], [form |-> "short", name |-> "X"],
      [form |-> "short", name |-> "h"],
      [form |-> "long", name |-> "no-preprocess"],
      [form |-> "long", name |-> "no-std-inc"],
      [form |-> "file", name |-> "-"], [form |-> "file", name |-> "a.c"],
      [form |-> "file", name |-> "missing.c"] }

\* The text standard input can hold: nothing, or one identifier.
StdinTexts == { << >>, <<[kind |-> "ident", name |-> "from_stdin"]>> }

\* The files on disk.
Disk ==
    [path \in {"a.c", "h.h"} |->
        IF path = "a.c"
        THEN <<[kind |-> "include", name |-> "h.h"], [kind |-> "ident", name |-> "a"]>>
        ELSE <<[kind |-> "pragma_once", name |-> ""], [kind |-> "ident", name |-> "h"]>>]

\* The non-option elements of args, in order: after the loop getopt_long has
\* moved them behind the options and optind is at the first of them.
RECURSIVE NonOptions(_)
NonOptions(args) ==
    IF args = << >> THEN << >>
    ELSE IF Head(args).form = "file"
         THEN <<Head(args).name>> \o NonOptions(Tail(args))
         ELSE NonOptions(Tail(args))

InitArgs ==
    /\ \E n \in 0..MaxArgs : argv \in [1..n -> Args]
    /\ stdin \in StdinTexts
    /\ stdin0 = stdin
    /\ fs = Disk
    /\ optind = 1
    /\ input_files = << >>
    /\ flags = NoFlags
    /\ compiler = compiler_init
    /\ reads = << >>
    /\ defines = << >>
    /\ undefs = << >>
    /\ define_calls = << >>
    /\ IdleLib
    /\ pc = "getopt"
    /\ exit_code = 0
    /\ idx = 0
    /\ count = 0
    /\ calls = << >>
    /\ inited = FALSE
    /\ jumped = FALSE
    /\ open_files = 0
    /\ opt = NoOptions
    /\ cc = cc_init
    /\ objs = << >>
    /\ objs0 = << >>
    /\ progs = << >>
    /\ merged = NULL
    /\ lpc = "main"
    /\ nlinks = 0

\* The variables of main the command-line steps before cc_init leave alone.
restVars == <<cc, objs, objs0, progs, merged, lpc, nlinks, opt, open_files, jumped,
              libVars>>

\* usage(argv[0], code): print the help text and exit(code).
Usage(code, messages) ==
    /\ calls' = calls \o messages \o <<"usage">>
    /\ exit_code' = code
    /\ pc' = "usage_exit"

\* if (argc <= 1) usage(argv[0], 1);
NoArguments ==
    /\ pc = "getopt" /\ argv = << >>
    /\ Usage(1, << >>)
    /\ UNCHANGED <<restVars, cliVars, idx, count, inited>>

\* getopt_long steps over an element that is not an option.
GetoptSkipsFile ==
    /\ pc = "getopt" /\ optind <= Len(argv)
    /\ argv[optind].form = "file"
    /\ optind' = optind + 1
    /\ UNCHANGED <<restVars, argv, input_files, flags, compiler, stdin, stdin0, fs,
                   reads, defines, undefs, define_calls, pc, exit_code, calls, idx, count, inited>>

\* case 'E': and case 'X': of the switch.
GetoptFlag ==
    /\ pc = "getopt" /\ optind <= Len(argv)
    /\ argv[optind].form # "file"
    /\ getopt_long(argv[optind]) \in {"E", "X"}
    /\ flags' = IF getopt_long(argv[optind]) = "E"
                THEN [flags EXCEPT !.preprocess_only = TRUE]
                ELSE [flags EXCEPT !.skip_preprocess = TRUE]
    /\ optind' = optind + 1
    /\ UNCHANGED <<restVars, argv, input_files, compiler, stdin, stdin0, fs,
                   reads, defines, undefs, define_calls, pc, exit_code, calls, idx, count, inited>>

\* case 'h': usage(argv[0], 0);
GetoptHelp ==
    /\ pc = "getopt" /\ optind <= Len(argv)
    /\ argv[optind].form # "file"
    /\ getopt_long(argv[optind]) = "h"
    /\ Usage(0, << >>)
    /\ UNCHANGED <<restVars, cliVars, idx, count, inited>>

\* case '?': "error: unknown option", usage(argv[0], 1);
GetoptUnknown ==
    /\ pc = "getopt" /\ optind <= Len(argv)
    /\ argv[optind].form # "file"
    /\ getopt_long(argv[optind]) = "?"
    /\ Usage(1, <<"error: unknown option">>)
    /\ UNCHANGED <<restVars, cliVars, idx, count, inited>>

\* for (int i = optind; i < argc; i++): the remaining arguments are the input
\* files; without any, "error: no input files" and usage(argv[0], 1).
CollectInputFiles ==
    /\ pc = "getopt" /\ argv # << >> /\ optind > Len(argv)
    /\ input_files' = NonOptions(argv)
    /\ count' = Len(input_files')
    /\ IF count' = 0
       THEN Usage(1, <<"error: no input files">>)
       ELSE pc' = "stdin" /\ UNCHANGED <<exit_code, calls>>
    /\ UNCHANGED <<restVars, argv, optind, flags, compiler, stdin, stdin0, fs,
                   reads, defines, undefs, define_calls, idx, inited>>

\* if (input_files_count == 1 && strcmp(input_files[0], "-") == 0)
OnlyStdin == count = 1 /\ input_files[1] = "-"

\* input_files[0] is left as it is.
StdinPath_Kept(files, tmp) == files[1]

\* input_files[0] = tmp;
StdinPath(files, tmp) == tmp

\* read_stdin_to_tmp copies standard input to a temporary file, whose name
\* takes the place of "-".
ReadStdinToTmp ==
    /\ pc = "stdin" /\ OnlyStdin
    /\ fs' = [path \in DOMAIN fs \cup {"tmp"} |->
                 IF path = "tmp" THEN stdin ELSE fs[path]]
    /\ stdin' = << >>
    /\ input_files' = [input_files EXCEPT ![1] = StdinPath(input_files, "tmp")]
    /\ pc' = "session"
    /\ UNCHANGED <<restVars, argv, optind, flags, compiler, stdin0, reads,
                   defines, undefs, define_calls,
                   exit_code, calls, idx, count, inited>>

\* read_stdin_to_tmp returns NULL: exit_code = 1; goto BAIL;
ReadStdinFails ==
    /\ pc = "stdin" /\ OnlyStdin
    /\ calls' = Append(calls, "error: failed to read stdin")
    /\ exit_code' = 1
    /\ pc' = "cli_bail"
    /\ UNCHANGED <<restVars, cliVars, idx, count, inited>>

\* cc_init(&cc, 0); ... cc.compiler.skip_preprocess = skip_preprocess;
CliSessionInit ==
    /\ \/ pc = "stdin" /\ ~OnlyStdin
       \/ pc = "session"
    /\ compiler' = [compiler_init EXCEPT !.skip_preprocess = flags.skip_preprocess]
    /\ inited' = TRUE
    /\ idx' = 1
    /\ pc' = "cli_preprocess"
    /\ UNCHANGED <<restVars, argv, optind, input_files, flags, stdin, stdin0, fs,
                   reads, defines, undefs, define_calls, exit_code, calls, count>>

\* input_tokens[i] = cc_preprocess(&cc, input_files[i]);
CliPreprocess ==
    /\ pc = "cli_preprocess" /\ idx <= count
    /\ LET path == input_files[idx]
           r == cc_preprocess(compiler, fs, stdin, path)
       IN /\ ~r.exited
          /\ compiler' = r.comp
          /\ reads' = Append(reads, [path |-> path, tok |-> r.tok, called |-> r.called])
          /\ stdin' = IF path = "-" THEN << >> ELSE stdin
    /\ idx' = idx + 1
    /\ pc' = IF idx = count THEN "cli_done" ELSE pc
    /\ UNCHANGED <<restVars, argv, optind, input_files, flags, stdin0, fs,
                   defines, undefs, define_calls, exit_code, calls, count, inited>>

\* must_tokenize_file: error("%s: %s", path, strerror(errno)) ends the process.
CliReadFails ==
    /\ pc = "cli_preprocess" /\ idx <= count
    /\ cc_preprocess(compiler, fs, stdin, input_files[idx]).exited
    /\ calls' = Append(calls, "error: cannot read")
    /\ pc' = "exited"
    /\ UNCHANGED <<restVars, cliVars, exit_code, idx, count, inited>>

NextArgs ==
    \/ NoArguments
    \/ GetoptSkipsFile
    \/ GetoptFlag
    \/ GetoptHelp
    \/ GetoptUnknown
    \/ CollectInputFiles
    \/ ReadStdinToTmp
    \/ ReadStdinFails
    \/ CliSessionInit
    \/ CliPreprocess
    \/ CliReadFails

SpecArgs == InitArgs /\ [][NextArgs]_vars

\* The names of the tokens of a list, EOF left out.
TokNames(tok) == [i \in 1..(Len(tok) - 1) |-> tok[i].name]

\* The names of the lexemes of a text.
TextNames(text) == [i \in 1..Len(text) |-> text[i].name]

\* main has ended or has reached the end of its preprocess loop.
CliEnded == pc \in {"usage_exit", "exited", "cli_bail", "cli_done"}

\* C12: the CLI accepts --no-std-inc; giving it sets use_std_inc to false,
\* and the run is not rejected as one with an unknown option.
C12_NoStdIncAccepted ==
    (CliEnded /\ (\E i \in 1..Len(argv) : argv[i].name = "no-std-inc")
              /\ (\A j \in 1..Len(argv) : argv[j].name # "h"))
        => /\ "error: unknown option" \notin Range(calls)
           /\ pc = "cli_done" => ~compiler.use_std_inc

\* The elements of the command line that name input files, in order.
GivenFiles == NonOptions(argv)

Chars == {"A", "B", "="}

\* The strings of at most n characters.
Strings(n) == UNION {[1..k -> Chars] : k \in 0..n}

\* strrchr(str, c): the last c in str, or NULL.
strrchr(str, c) ==
    IF \E k \in 1..Len(str) : str[k] = c
    THEN CHOOSE k \in 1..Len(str) :
            str[k] = c /\ \A j \in (k + 1)..Len(str) : str[j] # c
    ELSE NULL

\* strchr(str, c): the first c in str, or NULL.
RECURSIVE strchr(_, _)
strchr(str, c) ==
    IF str = << >> THEN NULL
    ELSE IF Head(str) = c THEN 1
    ELSE LET r == strchr(Tail(str), c)
         IN IF r = NULL THEN NULL ELSE r + 1

\* cc_define(vm, name, buf): define_macro(vm, name, buf).
cc_define(name, buf) == [name |-> name, buf |-> buf]

\* parse_define(cc, arg): the call of cc_define it makes.
parse_define(arg) ==
    LET eq == strchr(arg, "=")
    IN IF eq # NULL
       THEN cc_define(SubSeq(arg, 1, eq - 1), SubSeq(arg, eq + 1, Len(arg)))
       ELSE cc_define(arg, <<"1">>)

InitDefine ==
    /\ defines \in [1..1 -> Strings(MaxLen)]
    /\ undefs = << >>
    /\ define_calls = << >>
    /\ IdleLib
    /\ argv = << >>
    /\ optind = 1
    /\ input_files = << >>
    /\ flags = NoFlags
    /\ compiler = compiler_init
    /\ stdin = << >>
    /\ stdin0 = << >>
    /\ fs = << >>
    /\ reads = << >>
    /\ pc = "defines"
    /\ exit_code = 0
    /\ idx = 1
    /\ count = 1
    /\ calls = << >>
    /\ inited = TRUE
    /\ jumped = FALSE
    /\ open_files = 0
    /\ opt = NoOptions
    /\ cc = cc_init
    /\ objs = << >>
    /\ objs0 = << >>
    /\ progs = << >>
    /\ merged = NULL
    /\ lpc = "main"
    /\ nlinks = 0

\* for (int i = 0; i < defines_count; i++) parse_define(&cc, defines[i]);
ParseDefine ==
    /\ pc = "defines" /\ idx <= Len(defines)
    /\ define_calls' = Append(define_calls, parse_define(defines[idx]))
    /\ idx' = idx + 1
    /\ UNCHANGED <<restVars, argv, optind, input_files, flags, compiler, stdin,
                   stdin0, fs, reads, defines, undefs, pc, exit_code, calls, count, inited>>

NextDefine == ParseDefine

SpecDefine == InitDefine /\ [][NextDefine]_vars

\* C13: for -D name[=val], an argument without '=' defines the macro name
\* with body "1"; an argument with '=' is split at its first '=' only: the
\* text before it is the name and all the text after it is the body.
C13_SplitAtFirstEquals ==
    \A i \in 1..Len(define_calls) :
        LET arg == defines[i]
            call == define_calls[i]
        IN IF "=" \in Range(arg)
           THEN /\ arg = call.name \o <<"=">> \o call.buf
                /\ "=" \notin Range(call.name)
           ELSE /\ call.name = arg
                /\ call.buf = <<"1">>

\* C13: -DA=B=A has defined A as B=A.
C13_Witness ==
    /\ Len(define_calls) = 1
    /\ defines[1] = <<"A", "=", "B", "=", "A">>
    /\ define_calls[1] = [name |-> <<"A">>, buf |-> <<"B", "=", "A">>]

\* ------------------------------------------------------------------------
\* A library caller with two sessions that calls cc_preprocess
\* ------------------------------------------------------------------------

Ident(n) == [kind |-> "ident", name |-> n]
Punct(n) == [kind |-> "punct", name |-> n]
Include(path) == [kind |-> "include", name |-> path]
PragmaOnce == [kind |-> "pragma_once", name |-> ""]

ObjectLike(body) == [is_objlike |-> TRUE, body |-> body]
FunctionLike(body) == [is_objlike |-> FALSE, body |-> body]

\* #define M M
SelfMacro == [n \in {"M"} |-> ObjectLike(<<Ident("M")>>)]

\* The macro tables a session starts with (as cc_define or #define leave
\* them): none; #define M M; #define M() M(); #define M N with #define N M;
\* #define M x M; #define M() N with #define N M(); #define M x.
MacroTables ==
    { << >>,
      SelfMacro,
      [n \in {"M"} |-> FunctionLike(<<Ident("M"), Punct("("), Punct(")")>>)],
      [n \in {"M", "N"} |-> IF n = "M" THEN ObjectLike(<<Ident("N")>>)
                                       ELSE ObjectLike(<<Ident("M")>>)],
      [n \in {"M"} |-> ObjectLike(<<Ident("x"), Ident("M")>>)],
      [n \in {"M", "N"} |-> IF n = "M" THEN FunctionLike(<<Ident("N")>>)
                            ELSE ObjectLike(<<Ident("M"), Punct("("), Punct(")")>>)],
      [n \in {"M"} |-> ObjectLike(<<Ident("x")>>)] }

\* The lexemes of the text of a.c and the texts of at most n of them.
SourceLexemes == {Ident("M"), Include("h.h"), Punct("("), Punct(")")}
Texts(n) == UNION {[1..k -> SourceLexemes] : k \in 0..n}

\* The texts of h.h: with #pragma once and without.
Headers ==
    { <<PragmaOnce, Ident("h"), Ident("M"), Punct("("), Punct(")")>>,
      <<Ident("h"), Ident("M")>> }

InitPreprocess ==
    /\ \E text \in Texts(MaxToks), hdr \in Headers :
          fs = [path \in {"a.c", "b.c", "h.h"} |->
                   CASE path = "a.c" -> text
                     [] path = "b.c" -> <<Include("h.h"), Ident("M")>>
                     [] path = "h.h" -> hdr]
    /\ \E t \in MacroTables, skip \in BOOLEAN :
          compiler = [compiler_init EXCEPT !.macros = t, !.skip_preprocess = skip]
    /\ compiler2 = [compiler_init EXCEPT !.macros = SelfMacro]
    /\ compiler0 = <<compiler, compiler2>>
    /\ tokens = << >>
    /\ stdout = << >>
    /\ reads = << >>
    /\ argv = << >>
    /\ optind = 1
    /\ input_files = << >>
    /\ flags = NoFlags
    /\ stdin = << >>
    /\ stdin0 = << >>
    /\ defines = << >>
    /\ undefs = << >>
    /\ define_calls = << >>
    /\ pc = "library"
    /\ exit_code = 0
    /\ idx = 0
    /\ count = 0
    /\ calls = << >>
    /\ inited = TRUE
    /\ jumped = FALSE
    /\ open_files = 0
    /\ opt = NoOptions
    /\ cc = cc_init
    /\ objs = << >>
    /\ objs0 = << >>
    /\ progs = << >>
    /\ merged = NULL
    /\ lpc = "preprocess"
    /\ nlinks = 0

\* struct Compiler: the macro table, the #pragma once set and the counters
\* are members of the session, so a call works on the state of its own vm.
SessionState(own, foreign) == own

\* The record of one call of cc_preprocess on session s.
ReadRecord(s, path, own, r) ==
    [session |-> s, path |-> path, before |-> own, after |-> r.comp,
     tok |-> r.tok, called |-> r.called, exhausted |-> r.exhausted]

\* The variables a call of cc_preprocess by the library caller leaves alone.
callerVars ==
    <<cc, objs, objs0, progs, merged, lpc, nlinks, opt, open_files, jumped,
      compiler0, tokens, stdout, argv, optind, input_files, flags, stdin, stdin0,
      fs, defines, undefs, define_calls, pc, exit_code, idx, count, calls, inited>>

\* cc_preprocess(&first, path)
PreprocessFirst ==
    /\ lpc = "preprocess" /\ Len(reads) < MaxCalls
    /\ \E path \in {"a.c", "b.c"} :
          LET r == cc_preprocess(SessionState(compiler, compiler2), fs, stdin, path)
          IN /\ compiler' = r.comp
             /\ reads' = Append(reads, ReadRecord(1, path, compiler, r))
    /\ UNCHANGED <<callerVars, compiler2>>

\* cc_preprocess(&second, "b.c")
PreprocessSecond ==
    /\ lpc = "preprocess" /\ Len(reads) < MaxCalls
    /\ LET r == cc_preprocess(SessionState(compiler2, compiler), fs, stdin, "b.c")
       IN /\ compiler2' = r.comp
          /\ reads' = Append(reads, ReadRecord(2, "b.c", compiler2, r))
    /\ UNCHANGED <<callerVars, compiler>>

\* cc_preprocess(&first, "missing.c"): must_tokenize_file calls error(),
\* which takes no session and does not return; the process ends, and with
\* it both sessions.
PreprocessExits ==
    /\ lpc = "preprocess" /\ Len(reads) < MaxCalls
    /\ cc_preprocess(SessionState(compiler, compiler2), fs, stdin, "missing.c").exited
    /\ calls' = Append(calls, "error")
    /\ lpc' = "exited"
    /\ UNCHANGED <<cc, objs, objs0, progs, merged, nlinks, opt, open_files, jumped,
                   cliVars, libVars, pc, exit_code, idx, count, inited>>

NextPreprocess == PreprocessFirst \/ PreprocessSecond \/ PreprocessExits

SpecPreprocess == InitPreprocess /\ [][NextPreprocess]_vars

\* The number of times x occurs in seq.
Occurrences(seq, x) == Cardinality({i \in DOMAIN seq : seq[i] = x})

\* C15: with skip_preprocess set on the session, cc_preprocess returns
\* exactly the token list the tokenizer produced for the file and never
\* invokes preprocess (the session's state is left as it was); otherwise
\* preprocess is invoked exactly once, on the tokenizer's list, and its
\* result is what cc_preprocess returns.
C15_SkipBypassesPreprocess ==
    \A i \in 1..Len(reads) :
        LET r == reads[i]
            tok2 == Tokenize(fs[r.path], r.path)
        IN IF r.before.skip_preprocess
           THEN /\ r.tok = tok2
                /\ Occurrences(r.called, "preprocess") = 0
                /\ r.after = r.before
           ELSE /\ Occurrences(r.called, "preprocess") = 1
                /\ r.tok = preprocess(r.before, fs, tok2).tok

\* A session with skip_preprocess and #define M x has read a.c, whose text
\* uses M: the result is the tokenizer's list, which preprocess would have
\* changed.
C15_Witness ==
    /\ Len(reads) >= 1
    /\ reads[1].session = 1
    /\ reads[1].path = "a.c"
    /\ reads[1].before.skip_preprocess
    /\ reads[1].before.macros # << >>
    /\ \E j \in 1..Len(fs["a.c"]) : fs["a.c"][j] = Ident("M")
    /\ reads[1].tok = Tokenize(fs["a.c"], "a.c")
    /\ reads[1].tok # preprocess(reads[1].before, fs, reads[1].tok).tok

\* ------------------------------------------------------------------------
\* cc_print_tokens
\* ------------------------------------------------------------------------

\* The token lists handed to cc_print_tokens: at most n tokens, each with
\* its text and its at_bol and has_space flags, and TK_EOF at the tail.
PrintedTexts == {"a", "b"}
PrintableTokens ==
    [kind : {"ident"}, name : PrintedTexts, at_bol : BOOLEAN, has_space : BOOLEAN]
PrintEof == [kind |-> "eof", name |-> "", at_bol |-> TRUE, has_space |-> FALSE]
TokenLists(n) ==
    {Append(l, PrintEof) : l \in UNION {[1..k -> PrintableTokens] : k \in 0..n}}

\* if (line > 1 && tok->at_bol)
NewlineBefore(line, t) == line > 1 /\ t.at_bol

\* The space is written whatever at_bol says.
SpaceBefore_AtBolToo(t) == t.has_space

\* if (tok->has_space && !tok->at_bol)
SpaceBefore(t) == t.has_space /\ ~t.at_bol

\* The loop of cc_print_tokens from token i on, line being the counter the
\* code keeps and out what has been written.
RECURSIVE PrintLoop(_, _, _, _)
PrintLoop(tok, i, line, out) ==
    IF tok[i].kind = "eof" THEN out
    ELSE LET nl == IF NewlineBefore(line, tok[i]) THEN <<"\n">> ELSE << >>
             sp == IF SpaceBefore(tok[i]) THEN <<" ">> ELSE << >>
         IN PrintLoop(tok, i + 1, line + 1, out \o nl \o sp \o <<tok[i].name>>)

\* cc_print_tokens(out, tok): what is written to out.
cc_print_tokens(tok) == Append(PrintLoop(tok, 1, 1, << >>), "\n")

InitPrint ==
    /\ tokens \in TokenLists(MaxToks)
    /\ stdout = << >>
    /\ compiler = compiler_init
    /\ compiler2 = compiler_init
    /\ compiler0 = << >>
    /\ fs = << >>
    /\ reads = << >>
    /\ argv = << >>
    /\ optind = 1
    /\ input_files = << >>
    /\ flags = NoFlags
    /\ stdin = << >>
    /\ stdin0 = << >>
    /\ defines = << >>
    /\ undefs = << >>
    /\ define_calls = << >>
    /\ pc = "print"
    /\ exit_code = 0
    /\ idx = 0
    /\ count = 0
    /\ calls = << >>
    /\ inited = TRUE
    /\ jumped = FALSE
    /\ open_files = 0
    /\ opt = NoOptions
    /\ cc = cc_init
    /\ objs = << >>
    /\ objs0 = << >>
    /\ progs = << >>
    /\ merged = NULL
    /\ lpc = "print"
    /\ nlinks = 0

\* cc_print_tokens(stdout, tok)
PrintTokenList ==
    /\ pc = "print"
    /\ stdout' = cc_print_tokens(tokens)
    /\ pc' = "printed"
    /\ UNCHANGED <<cc, objs, objs0, progs, merged, lpc, nlinks, opt, open_files,
                   jumped, compiler, compiler2, compiler0, tokens, argv, optind,
                   input_files, flags, stdin, stdin0, fs, reads, defines, undefs,
                   define_calls, exit_code, idx, count, calls, inited>>

NextPrint == PrintTokenList

SpecPrint == InitPrint /\ [][NextPrint]_vars

\* What precedes token t when it is not the first of the list: one newline
\* if it begins a line, else one space if white space came before it, else
\* nothing.
Separator(t) ==
    IF t.at_bol THEN <<"\n">> ELSE IF t.has_space THEN <<" ">> ELSE << >>

\* Tokens i.. of the list (EOF left out), each after its separator.
RECURSIVE Separated(_, _)
Separated(tok, i) ==
    IF i >= Len(tok) THEN << >>
    ELSE Separator(tok[i]) \o <<tok[i].name>> \o Separated(tok, i + 1)

\* C16: cc_print_tokens writes the tokens' texts in list order, each token
\* after the first preceded by exactly one newline if its at_bol is set,
\* otherwise by exactly one space if its has_space is set, otherwise by
\* nothing; the first token is never preceded by a newline (at most by one
\* space); the EOF token is not written; and the output ends with one
\* newline.
C16_PrintTokensLayout ==
    pc = "printed" =>
        IF Len(tokens) = 1
        THEN stdout = <<"\n">>
        ELSE \E lead \in {<< >>, <<" ">>} :
                stdout = lead \o <<tokens[1].name>> \o Separated(tokens, 2) \o <<"\n">>

\* Three tokens were printed: the second begins a line and has white space
\* before it, the third has neither.
C16_Witness ==
    /\ pc = "printed"
    /\ Len(tokens) = 4
    /\ tokens[1].at_bol
    /\ tokens[2].at_bol /\ tokens[2].has_space
    /\ ~tokens[3].at_bol /\ ~tokens[3].has_space
    /\ stdout = <<tokens[1].name, "\n", tokens[2].name, tokens[3].name, "\n">>

\* ------------------------------------------------------------------------
\* Properties of the preprocessor
\* ------------------------------------------------------------------------

\* The reads that went through preprocess.
Preprocessed == {i \in 1..Len(reads) : ~reads[i].before.skip_preprocess}

\* Token j of list tok is written like a use of a macro of comp: an
\* identifier naming an object-like macro, or a function-like one with its
\* argument list after it.
WrittenAsUse(comp, tok, j) ==
    /\ tok[j].kind = "ident"
    /\ tok[j].name \in DOMAIN comp.macros
    /\ \/ comp.macros[tok[j].name].is_objlike
       \/ /\ j + 2 <= Len(tok)
          /\ IsPunct(tok[j + 1], "(")
          /\ IsPunct(tok[j + 2], ")")

\* Token t came out of a macro expansion: the tokens of a source text
\* hide nothing.
FromExpansion(t) == t.hideset # {}

\* C19: macro expansion is hide-set-correct: preprocessing a text that uses
\* a macro whose expansion mentions itself, directly or through another
\* macro, ends (the scan never runs out of steps), and every reference to a
\* macro that an expansion has put into the result hides its own name: it
\* is the inner reference, left unexpanded.
C19_HideSetTerminates ==
    \A i \in Preprocessed :
        /\ ~reads[i].exhausted
        /\ \A j \in 1..Len(reads[i].tok) :
              (FromExpansion(reads[i].tok[j])
                  /\ WrittenAsUse(reads[i].after, reads[i].tok, j))
                  => reads[i].tok[j].name \in reads[i].tok[j].hideset

\* Session 1 holds #define M N and #define N M and has preprocessed a.c,
\* whose text is M: the result is the one token M, hiding M and N.
C19_Witness ==
    /\ Len(reads) >= 1
    /\ reads[1].session = 1
    /\ reads[1].path = "a.c"
    /\ ~reads[1].before.skip_preprocess
    /\ DOMAIN reads[1].before.macros = {"M", "N"}
    /\ reads[1].before.macros["M"].is_objlike
    /\ fs["a.c"] = <<Ident("M")>>
    /\ ~reads[1].exhausted
    /\ Len(reads[1].tok) = 2
    /\ reads[1].tok[1].name = "M"
    /\ reads[1].tok[1].hideset = {"M", "N"}

\* The places (read, position) where the results of session s hold the
\* first token of the text of h.h: one for every inclusion of the file.
Inclusions(s) ==
    UNION {{<<i, j>> : j \in {k \in 1..Len(reads[i].tok) :
                                 /\ reads[i].tok[k].file = "h.h"
                                 /\ reads[i].tok[k].name = "h"}} :
           i \in {n \in 1..Len(reads) : reads[n].session = s}}

HasPragmaOnce(text) == \E j \in 1..Len(text) : text[j] = PragmaOnce

\* C20: a file that contains #pragma once is included at most once per
\* session, whichever file includes it and across the successive
\* cc_preprocess calls of the session.
C20_PragmaOnceOncePerSession ==
    HasPragmaOnce(fs["h.h"]) =>
        \A s \in 1..2 : Cardinality(Inclusions(s)) <= 1

\* Session 1 has preprocessed a.c, which includes h.h twice, and then b.c,
\* which includes it again: the text of h.h is in the first result once and
\* not in the second.
C20_Witness ==
    /\ HasPragmaOnce(fs["h.h"])
    /\ Len(reads) = 2
    /\ reads[1].session = 1 /\ reads[1].path = "a.c"
    /\ reads[2].session = 1 /\ reads[2].path = "b.c"
    /\ Preprocessed = {1, 2}
    /\ Cardinality({j \in 1..Len(fs["a.c"]) : fs["a.c"][j] = Include("h.h")}) >= 2
    /\ Inclusions(1) = {<<1, 1>>}
    /\ "h.h" \in reads[2].before.pragma_once

\* The reads of session s, in the order they were made.
ReadsOf(s) == SelectSeq(reads, LAMBDA r : r.session = s)

\* The state of session s now.
SessionNow(s) == IF s = 1 THEN compiler ELSE compiler2

\* The state of session s is what its own calls made of the state it was
\* created with.
OwnCallsOnly(s) ==
    LET own == ReadsOf(s)
    IN /\ \A i \in 1..Len(own) :
             own[i].before = IF i = 1 THEN compiler0[s] ELSE own[i - 1].after
       /\ SessionNow(s) = IF own = << >> THEN compiler0[s] ELSE own[Len(own)].after

\* The process has ended, and session s with it, through a call made on
\* another session.
LostToOther(s) == lpc = "exited" /\ s # 1

InputNames == {objs0[i].name : i \in Inputs}

\* The places of the returned list that hold an object of name n.
EmittedFor(n) == {p \in 1..Len(Result) : objs[Result[p]].name = n}

\* C28: for count >= 2 the list cc_link_progs returns holds exactly one
\* object for each distinct name of the input lists and each of them is one
\* of the input objects, under the name it came with (nothing is copied or
\* created); its length is the number of distinct names, and it is empty
\* only when every input list is empty.
C28_OneInputObjectPerName ==
    (lpc = "returned" /\ count >= 2) =>
        /\ DOMAIN objs = Inputs
        /\ \A p \in 1..Len(Result) :
              Result[p] \in Inputs /\ objs[Result[p]].name = objs0[Result[p]].name
        /\ \A n \in InputNames : Cardinality(EmittedFor(n)) = 1
        /\ Len(Result) = Cardinality(InputNames)
        /\ (merged = NULL) <=> (\A u \in 1..count : progs[u] = NULL)

\* Three objects of two names in two lists, the second list ending in a
\* second object of a name of the first, were merged into a list of two.
C28_Witness ==
    /\ lpc = "returned" /\ count >= 2
    /\ Len(objs0) = 3
    /\ Cardinality(InputNames) = 2
    /\ objs0[3].name = objs0[1].name
    /\ objs0[2].next = 3
    /\ Len(Result) = 2

\* The first definition of name n in scan order (0: none).
FirstDefinition(n) ==
    IF \E i \in Inputs : objs0[i].name = n /\ IsDefinition(objs0[i])
    THEN CHOOSE i \in Inputs :
            /\ objs0[i].name = n /\ IsDefinition(objs0[i])
            /\ \A j \in Inputs : (objs0[j].name = n /\ IsDefinition(objs0[j])) => i <= j
    ELSE 0

\* C29: when cc_link_progs (count >= 2) returns, also after it has reported
\* redefinitions to the error list, the object emitted for a name that has
\* a definition is the first definition of the name in scan order: a later
\* definition never takes the place of an earlier definition and always
\* takes the place of an earlier declaration.
C29_FirstDefinitionEmitted ==
    (lpc = "returned" /\ count >= 2) =>
        \A n \in InputNames : FirstDefinition(n) # 0 =>
            \A p \in EmittedFor(n) : Result[p] = FirstDefinition(n)

\* A name declared, then defined twice was linked with error collection on:
\* the redefinition is on the list and the first definition was emitted.
C29_Witness ==
    /\ lpc = "returned" /\ count >= 2
    /\ Len(cc.errors) = 1
    /\ Len(objs0) = 3
    /\ \A i \in Inputs : objs0[i].name = "a"
    /\ ~IsDefinition(objs0[1]) /\ IsDefinition(objs0[2]) /\ IsDefinition(objs0[3])
    /\ Result = <<2>>

\* ------------------------------------------------------------------------
\* Further properties of main
\* ------------------------------------------------------------------------

\* C25: cc_destroy is never called on a CAST object that cc_init has not
\* initialized: every path of main that reaches the BAIL cleanup has run
\* cc_init first, the path of a failed read of stdin included.
C25_DestroyOnlyInitialized ==
    /\ pc = "BAIL" => inited
    /\ CountCalls("cc_destroy") > 0 => CountCalls("cc_init") > 0

\* The calls that are output actions, and the one the options choose.
OutputCalls ==
    {"cc_output_preprocessed", "cc_print_tokens", "cc_output_json", "cc_print_ast",
     "printf summary"}

ChosenOutput ==
    IF opt.preprocess_only THEN "cc_output_preprocessed"
    ELSE IF opt.print_tokens THEN "cc_print_tokens"
    ELSE IF opt.output_json THEN "cc_output_json"
    ELSE IF opt.dump_ast THEN "cc_print_ast"
    ELSE "printf summary"

\* C27: no run of main performs an output action other than the one chosen
\* by the priority -E, -P, -j, -a, default summary; a run that passes every
\* error check (main returns 0) performs that one (-E and -P once for each
\* input file, the others once); and with -E or -P neither cc_parse nor
\* cc_link_progs is ever called, so that no parse error can set the exit
\* code.
C27_OneOutputByPriority ==
    /\ Range(calls) \cap OutputCalls \subseteq {ChosenOutput}
    /\ (pc = "done" /\ inited /\ exit_code = 0) =>
          CountCalls(ChosenOutput) =
              IF opt.preprocess_only \/ opt.print_tokens THEN count ELSE 1
    /\ (opt.preprocess_only \/ opt.print_tokens) =>
          /\ Range(calls) \cap {"cc_parse", "cc_link_progs"} = {}
          /\ pc \notin {"parse", "in_parse", "parse_check", "link"}

\* main has returned 0 after a run with -E, -P, -j and -a all given: the
\* preprocessed text was written and nothing was parsed.
C27_Witness ==
    /\ pc = "done" /\ exit_code = 0
    /\ opt.preprocess_only /\ opt.print_tokens /\ opt.output_json /\ opt.dump_ast
    /\ CountCalls("cc_output_preprocessed") = count
    /\ count >= 2

\* The preprocessed text of input file i, as cc_output_preprocessed writes it.
PreprocessedText(i) == [call |-> "cc_output_preprocessed", unit |-> i]

\* C30: with -E and -o FILE the driver opens FILE for writing (truncating
\* it) once per input file and closes it after each, so that after a run
\* over n > 1 input files FILE holds the preprocessed text of the last input
\* file only; without -o the preprocessed texts of all input files are on
\* stdout in input order.
C30_OutputFileHoldsLastInput ==
    (pc = "done" /\ inited /\ exit_code = 0 /\ opt.preprocess_only) =>
        IF opt.out_file
        THEN /\ CountCalls("fopen") = count
             /\ CountCalls("fclose") = count
             /\ \A k \in 1..Len(calls) :
                   calls[k] = "fopen" =>
                       /\ calls[k + 1] = "cc_output_preprocessed"
                       /\ calls[k + 2] = "fclose"
             /\ fs["out"] = <<PreprocessedText(count)>>
             /\ stdout = << >>
        ELSE /\ stdout = [i \in 1..count |-> PreprocessedText(i)]
             /\ CountCalls("fopen") = 0

\* A run with -E and -o over two input files has ended: the file holds the
\* text of the second only.
C30_Witness ==
    /\ pc = "done" /\ exit_code = 0
    /\ opt.preprocess_only /\ opt.out_file
    /\ count >= 2
    /\ CountCalls("fopen") = count
    /\ fs["out"] = <<PreprocessedText(count)>>

\* ------------------------------------------------------------------------
\* cc_init
\* ------------------------------------------------------------------------

\* What the CAST object can hold before cc_init: it is the caller's to
\* allocate, so anything.
Garbage ==
    [ max_errors         : {0, 7, DEFAULT_MAX_ERRORS},
      collect_errors     : BOOLEAN,
      warnings_as_errors : BOOLEAN,
      error_count        : {0, 3},
      warning_count      : {0, 3},
      errors             : {<< >>},
      error_message      : {<< >>},
      error_jmp_buf      : {NULL, 1},
      compiler           : [ skip_preprocess  : {FALSE},
                             use_std_inc      : BOOLEAN,
                             embed_limit      : {0, 10 * 1024 * 1024},
                             embed_hard_limit : {0},
                             embed_hard_error : BOOLEAN,
                             macros           : {<< >>},
                             pragma_once      : {{}} ] ]

\* The values of the uint32_t flags argument.
FlagValues == {0, 1, 2, 2147483647}

\* The object is left as it was.
memset_Skipped(vm) == vm

\* memset(vm, 0, sizeof(CAST))
memset(vm) ==
    [ max_errors         |-> 0,
      collect_errors     |-> FALSE,
      warnings_as_errors |-> FALSE,
      error_count        |-> 0,
      warning_count      |-> 0,
      errors             |-> << >>,
      error_message      |-> << >>,
      error_jmp_buf      |-> NULL,
      compiler           |-> [ skip_preprocess  |-> FALSE,
                               use_std_inc      |-> FALSE,
                               embed_limit      |-> 0,
                               embed_hard_limit |-> 0,
                               embed_hard_error |-> FALSE,
                               macros           |-> << >>,
                               pragma_once      |-> {} ] ]

\* void cc_init(CAST *vm, uint32_t flags): memset, the #embed limits, the
\* error settings; (void)flags.
cc_init_call(vm, f) ==
    [memset(vm) EXCEPT !.compiler.embed_limit = 10 * 1024 * 1024,
                       !.compiler.embed_hard_limit = 50 * 1024 * 1024,
                       !.compiler.use_std_inc = TRUE,
                       !.compiler.embed_hard_error = FALSE,
                       !.max_errors = 20,
                       !.collect_errors = FALSE,
                       !.warnings_as_errors = FALSE]

InitSession ==
    /\ cc \in Garbage
    /\ flags \in FlagValues
    /\ pc = "cc_init"
    /\ lpc = "cc_init"
    /\ compiler = compiler_init
    /\ argv = << >>
    /\ optind = 1
    /\ input_files = << >>
    /\ stdin = << >>
    /\ stdin0 = << >>
    /\ fs = << >>
    /\ reads = << >>
    /\ defines = << >>
    /\ undefs = << >>
    /\ define_calls = << >>
    /\ IdleLib
    /\ exit_code = 0
    /\ idx = 0
    /\ count = 0
    /\ calls = << >>
    /\ inited = FALSE
    /\ jumped = FALSE
    /\ open_files = 0
    /\ opt = NoOptions
    /\ objs = << >>
    /\ objs0 = << >>
    /\ progs = << >>
    /\ merged = NULL
    /\ nlinks = 0

\* cc_init(&vm, flags)
CallInit ==
    /\ pc = "cc_init"
    /\ cc' = cc_init_call(cc, flags)
    /\ inited' = TRUE
    /\ pc' = "initialized"
    /\ UNCHANGED <<objs, objs0, progs, count, merged, lpc, nlinks, opt, exit_code,
                   idx, calls, open_files, jumped, cliVars, libVars>>

NextSession == CallInit

SpecSession == InitSession /\ [][NextSession]_vars

\* C22: after cc_init(vm, flags) returns, whatever flags is and whatever
\* the object held: max_errors = 20, error collection and
\* warnings_as_errors are off, the error list is empty with error_count =
\* warning_count = 0, no escape buffer is installed, use_std_inc is true,
\* embed_limit = 10 MiB, embed_hard_limit = 50 MiB, embed_hard_error is
\* false; flags has no effect: the session is the one every other
\* specification starts from.
C22_InitDefaults ==
    pc = "initialized" =>
        /\ cc.max_errors = 20
        /\ ~cc.collect_errors
        /\ ~cc.warnings_as_errors
        /\ cc.errors = << >> /\ cc.error_count = 0 /\ cc.warning_count = 0
        /\ cc.error_message = << >>
        /\ cc.error_jmp_buf = NULL
        /\ cc.compiler.use_std_inc
        /\ cc.compiler.embed_limit = 10485760
        /\ cc.compiler.embed_hard_limit = 52428800
        /\ ~cc.compiler.embed_hard_error
        /\ [field \in DOMAIN cc_init |-> cc[field]] = cc_init
        /\ cc.compiler = compiler_init

\* cc_init has run with a flags value other than 0.
C22_Witness ==
    pc = "initialized" /\ flags = 2147483647 /\ cc.max_errors = 20

\* ------------------------------------------------------------------------
\* parse_size and --embed-limit
\* ------------------------------------------------------------------------

\* The characters of the SIZE strings: a sign, decimal digits, the letters
\* of the suffixes in one case or both, and a letter of no suffix.  With
\* these strtod reads an optional sign and decimal digits.
SizeChars == {"-", "0", "2", "k", "K", "b", "B", "m", "G", "q"}
SizeStrings(n) == UNION {[1..k -> SizeChars] : k \in 0..n}

IsDigit(c) == c \in {"0", "2"}
DigitValue(c) == IF c = "2" THEN 2 ELSE 0

\* The number of decimal digits str holds from position i on.
RECURSIVE DigitRun(_, _)
DigitRun(str, i) ==
    IF i <= Len(str) /\ IsDigit(str[i]) THEN 1 + DigitRun(str, i + 1) ELSE 0

\* The value of the decimal digits str[i..j].
RECURSIVE DecimalValue(_, _, _)
DecimalValue(str, i, j) ==
    IF j < i THEN 0 ELSE 10 * DecimalValue(str, i, j - 1) + DigitValue(str[j])

\* strtod(str, &endptr): the magnitude read, whether the value is below
\* zero, and the position endptr points at.  Without digits nothing is
\* converted: the value is 0 and endptr is str.
strtod(str) ==
    LET minus == str # << >> /\ str[1] = "-"
        first == IF minus THEN 2 ELSE 1
        n == DigitRun(str, first)
        v == DecimalValue(str, first, first + n - 1)
    IN IF n = 0
       THEN [magnitude |-> 0, negative |-> FALSE, endptr |-> 1]
       ELSE [magnitude |-> v, negative |-> minus /\ v > 0, endptr |-> first + n]

\* tolower on the characters of a string, as strcasecmp compares them.
ToLower(str) ==
    [i \in 1..Len(str) |->
        CASE str[i] = "K" -> "k" [] str[i] = "B" -> "b" [] str[i] = "G" -> "g"
          [] str[i] = "M" -> "m"
          [] OTHER -> str[i]]

strcasecmp(a, b) == IF ToLower(a) = ToLower(b) THEN 0 ELSE 1

\* A size_t, 64 bits wide, kept as gib * 2^30 + rest with rest < 2^30.
SizeT(gib, rest) == [gib |-> gib, rest |-> rest]

\* (size_t)(value * multiplier) for a whole value and a multiplier that
\* divides 2^30.
Times(value, multiplier) ==
    LET q == 1073741824 \div multiplier
    IN SizeT(value \div q, (value % q) * multiplier)

\* The multiplier is 1000 for "k" and "kb".
SuffixMultiplier_Decimal(suffix) ==
    IF strcasecmp(suffix, <<"k", "b">>) = 0 \/ strcasecmp(suffix, <<"k">>) = 0 THEN 1000
    ELSE IF strcasecmp(suffix, <<"m", "b">>) = 0 \/ strcasecmp(suffix, <<"m">>) = 0
    THEN 1024 * 1024
    ELSE IF strcasecmp(suffix, <<"g", "b">>) = 0 \/ strcasecmp(suffix, <<"g">>) = 0
    THEN 1024 * 1024 * 1024
    ELSE IF strcasecmp(suffix, <<"b">>) = 0 THEN 1
    ELSE 0

\* The multiplier parse_size chooses for the text at endptr, when that is
\* not empty; 0: "invalid size suffix".
SuffixMultiplier(suffix) ==
    IF strcasecmp(suffix, <<"k", "b">>) = 0 \/ strcasecmp(suffix, <<"k">>) = 0 THEN 1024
    ELSE IF strcasecmp(suffix, <<"m", "b">>) = 0 \/ strcasecmp(suffix, <<"m">>) = 0
    THEN 1024 * 1024
    ELSE IF strcasecmp(suffix, <<"g", "b">>) = 0 \/ strcasecmp(suffix, <<"g">>) = 0
    THEN 1024 * 1024 * 1024
    ELSE IF strcasecmp(suffix, <<"b">>) = 0 THEN 1
    ELSE 0

\* parse_size(str, flag_name): exit(1) with a message, or the size.
parse_size(str) ==
    LET r == strtod(str)
        suffix == SubSeq(str, r.endptr, Len(str))
        multiplier == IF suffix = << >> THEN 1 ELSE SuffixMultiplier(suffix)
    IN IF r.negative
       THEN [exited |-> TRUE, message |-> "error: must be non-negative", size |-> SizeT(0, 0)]
       ELSE IF multiplier = 0
       THEN [exited |-> TRUE, message |-> "error: invalid size suffix", size |-> SizeT(0, 0)]
       ELSE [exited |-> FALSE, message |-> "", size |-> Times(r.magnitude, multiplier)]

\* The elements of a command line of options: --embed-limit SIZE,
\* --embed-hard-limit, -D name, -U name.
EmbedLimit(size) == [name |-> "embed-limit", arg |-> size]
EmbedHardLimit == [name |-> "embed-hard-limit", arg |-> << >>]
DefineOption(macro) == [name |-> "D", arg |-> macro]
UndefOption(macro) == [name |-> "U", arg |-> macro]

\* The words of the command lines that mix the options:
\* --embed-limit 0, 2k, 2GB; -D A, -D B; -U A, -U B.
OptionWords ==
    {EmbedLimit(<<"0">>), EmbedLimit(<<"2", "k">>), EmbedLimit(<<"2", "G", "B">>),
     EmbedHardLimit,
     DefineOption(<<"A">>), DefineOption(<<"B">>),
     UndefOption(<<"A">>), UndefOption(<<"B">>)}

\* The command lines: --embed-limit with every SIZE string alone, and the
\* lines of at most MaxArgs of the words above.  The input file a.c
\* follows the options.
OptionLines ==
    {<<EmbedLimit(str)>> : str \in SizeStrings(MaxSize)}
        \cup UNION {[1..k -> OptionWords] : k \in 0..MaxArgs}

\* size_t embed_limit = 0; int embed_hard_error = 0;
NoLimits == [embed_limit |-> SizeT(0, 0), embed_hard_error |-> FALSE]

InitOptions ==
    /\ argv \in OptionLines
    /\ optind = 1
    /\ flags = NoLimits
    /\ defines = << >>
    /\ undefs = << >>
    /\ define_calls = << >>
    /\ input_files = << >>
    /\ compiler = compiler_init
    /\ stdin = << >>
    /\ stdin0 = << >>
    /\ fs = << >>
    /\ reads = << >>
    /\ IdleLib
    /\ pc = "getopt"
    /\ lpc = "main"
    /\ exit_code = 0
    /\ idx = 0
    /\ count = 0
    /\ calls = << >>
    /\ inited = FALSE
    /\ jumped = FALSE
    /\ open_files = 0
    /\ opt = NoOptions
    /\ cc = cc_init
    /\ objs = << >>
    /\ objs0 = << >>
    /\ progs = << >>
    /\ merged = NULL
    /\ nlinks = 0

\* The variables no step from the getopt_long loop to the macros touches.
optionRest ==
    <<objs, objs0, progs, merged, lpc, nlinks, opt, open_files, jumped, libVars,
      argv, stdin, stdin0, fs, reads, idx>>

\* case 1004: embed_limit = parse_size(optarg, "--embed-limit");
GetoptEmbedLimit ==
    /\ pc = "getopt" /\ optind <= Len(argv)
    /\ argv[optind].name = "embed-limit"
    /\ LET r == parse_size(argv[optind].arg)
       IN /\ ~r.exited
          /\ flags' = [flags EXCEPT !.embed_limit = r.size]
    /\ optind' = optind + 1
    /\ UNCHANGED <<optionRest, cc, compiler, defines, undefs, define_calls, input_files,
                   pc, exit_code, count, calls, inited>>

\* case 1004, parse_size prints its message and calls exit(1).
GetoptEmbedLimitExits ==
    /\ pc = "getopt" /\ optind <= Len(argv)
    /\ argv[optind].name = "embed-limit"
    /\ LET r == parse_size(argv[optind].arg)
       IN /\ r.exited
          /\ calls' = Append(calls, r.message)
    /\ pc' = "exited"
    /\ UNCHANGED <<optionRest, cc, compiler, defines, undefs, define_calls, input_files,
                   flags, optind, exit_code, count, inited>>

\* case 1005: embed_hard_error = 1;
GetoptEmbedHardLimit ==
    /\ pc = "getopt" /\ optind <= Len(argv)
    /\ argv[optind].name = "embed-hard-limit"
    /\ flags' = [flags EXCEPT !.embed_hard_error = TRUE]
    /\ optind' = optind + 1
    /\ UNCHANGED <<optionRest, cc, compiler, defines, undefs, define_calls, input_files,
                   pc, exit_code, count, calls, inited>>

\* case 'D': defines[defines_count++] = strdup(optarg);
GetoptDefine ==
    /\ pc = "getopt" /\ optind <= Len(argv)
    /\ argv[optind].name = "D"
    /\ defines' = Append(defines, argv[optind].arg)
    /\ optind' = optind + 1
    /\ UNCHANGED <<optionRest, cc, compiler, undefs, define_calls, input_files, flags,
                   pc, exit_code, count, calls, inited>>

\* case 'U': undefs[undefs_count++] = strdup(optarg);
GetoptUndef ==
    /\ pc = "getopt" /\ optind <= Len(argv)
    /\ argv[optind].name = "U"
    /\ undefs' = Append(undefs, argv[optind].arg)
    /\ optind' = optind + 1
    /\ UNCHANGED <<optionRest, cc, compiler, defines, define_calls, input_files, flags,
                   pc, exit_code, count, calls, inited>>

\* getopt_long returns -1; the input file is collected.
GetoptEnd ==
    /\ pc = "getopt" /\ optind > Len(argv)
    /\ input_files' = <<"a.c">>
    /\ count' = 1
    /\ pc' = "cc_init"
    /\ UNCHANGED <<optionRest, cc, compiler, defines, undefs, define_calls, flags,
                   optind, exit_code, calls, inited>>

\* embed_limit > 0
Positive(size) == size.gib > 0 \/ size.rest > 0

\* A whole number of bytes as a size_t.
Bytes(n) == Times(n, 1)

\* if (embed_limit > 0) { cc.compiler.embed_limit = embed_limit;
\*                        cc.compiler.embed_hard_limit = embed_limit; }
\* if (embed_hard_error) cc.compiler.embed_hard_error = true;
ConfigureEmbed_SoftOnly(comp, fl) ==
    LET c1 == IF Positive(fl.embed_limit)
              THEN [comp EXCEPT !.embed_limit = fl.embed_limit]
              ELSE comp
    IN IF fl.embed_hard_error THEN [c1 EXCEPT !.embed_hard_error = TRUE] ELSE c1

ConfigureEmbed(comp, fl) ==
    LET c1 == IF Positive(fl.embed_limit)
              THEN [comp EXCEPT !.embed_limit = fl.embed_limit,
                                !.embed_hard_limit = fl.embed_limit]
              ELSE comp
    IN IF fl.embed_hard_error THEN [c1 EXCEPT !.embed_hard_error = TRUE] ELSE c1

\* cc_init(&cc, 0), the #embed limits, the error settings, setjmp.
ConfigureSession ==
    /\ pc = "cc_init"
    /\ cc' = [cc_init EXCEPT !.collect_errors = TRUE]
    /\ compiler' = ConfigureEmbed([compiler_init EXCEPT !.embed_limit = Bytes(@),
                                                        !.embed_hard_limit = Bytes(@)],
                                  flags)
    /\ inited' = TRUE
    /\ calls' = Append(calls, "cc_init")
    /\ pc' = "macros"
    /\ UNCHANGED <<optionRest, defines, undefs, define_calls, input_files, flags,
                   optind, exit_code, count>>

\* cc_undef(vm, name)
cc_undef(name) == [undef |-> name]

\* The undefs are processed before the defines.
MacroCalls_UndefsFirst(ds, us) ==
    [i \in 1..Len(us) |-> cc_undef(us[i])] \o [i \in 1..Len(ds) |-> parse_define(ds[i])]

\* for (i < defines_count) parse_define(&cc, defines[i]);
\* for (i < undefs_count) cc_undef(&cc, undefs[i]);
MacroCalls(ds, us) ==
    [i \in 1..Len(ds) |-> parse_define(ds[i])] \o [i \in 1..Len(us) |-> cc_undef(us[i])]

\* define_macro and undef_macro: the macro table after one call.
ApplyMacroCall(macros, c) ==
    IF "undef" \in DOMAIN c
    THEN [n \in DOMAIN macros \ {c.undef} |-> macros[n]]
    ELSE [n \in DOMAIN macros \cup {c.name} |->
             IF n = c.name THEN [is_objlike |-> TRUE, body |-> c.buf] ELSE macros[n]]

\* The macro table after the calls cs, in order.
RECURSIVE ApplyMacroCalls(_, _)
ApplyMacroCalls(macros, cs) ==
    IF cs = << >> THEN macros
    ELSE ApplyMacroCalls(ApplyMacroCall(macros, Head(cs)), Tail(cs))

\* Process macros: the two loops of main.
ProcessMacros ==
    /\ pc = "macros"
    /\ define_calls' = MacroCalls(defines, undefs)
    /\ compiler' = [compiler EXCEPT !.macros = ApplyMacroCalls(@, MacroCalls(defines, undefs))]
    /\ pc' = "configured"
    /\ UNCHANGED <<optionRest, cc, defines, undefs, input_files, flags,
                   optind, exit_code, count, calls, inited>>

NextOptions ==
    \/ GetoptEmbedLimit \/ GetoptEmbedLimitExits \/ GetoptEmbedHardLimit
    \/ GetoptDefine \/ GetoptUndef \/ GetoptEnd
    \/ ConfigureSession \/ ProcessMacros

SpecOptions == InitOptions /\ [][NextOptions]_vars

\* SIZE is written as a number: an optional sign and at least one digit,
\* then the suffix.
NumberEnd(str) ==
    LET first == IF str # << >> /\ str[1] = "-" THEN 2 ELSE 1
    IN first + DigitRun(str, first)
HasNumber(str) ==
    NumberEnd(str) > (IF str # << >> /\ str[1] = "-" THEN 2 ELSE 1)
NumberValue(str) ==
    DecimalValue(str, IF str[1] = "-" THEN 2 ELSE 1, NumberEnd(str) - 1)
IsNegative(str) == str[1] = "-" /\ NumberValue(str) > 0
SuffixOf(str) == ToLower(SubSeq(str, NumberEnd(str), Len(str)))

\* The suffixes the claim lists, in lower case.
KnownSuffixes ==
    {<< >>, <<"b">>, <<"k">>, <<"k", "b">>, <<"m">>, <<"m", "b">>, <<"g">>, <<"g", "b">>}

\* A SIZE the claim has accepted: not negative, with a listed suffix.
ValidSize(str) == ~IsNegative(str) /\ SuffixOf(str) \in KnownSuffixes

\* size is the number of SIZE times the multiplier of its suffix.
IsSizeOf(size, str) ==
    LET v == NumberValue(str)
        suffix == SuffixOf(str)
    IN CASE suffix \in {<< >>, <<"b">>} -> size.gib = 0 /\ size.rest = v
         [] suffix \in {<<"k">>, <<"k", "b">>} -> size.gib = 0 /\ size.rest = v * 1024
         [] suffix \in {<<"m">>, <<"m", "b">>} ->
               /\ size.rest % (1024 * 1024) = 0
               /\ size.gib * 1024 + size.rest \div (1024 * 1024) = v
         [] suffix \in {<<"g">>, <<"g", "b">>} -> size.gib = v /\ size.rest = 0
         [] OTHER -> FALSE

\* C23: --embed-limit SIZE, SIZE being a number with an optional suffix, is
\* parsed as that number times 1024 for K or KB, 1024^2 for M or MB,
\* 1024^3 for G or GB and 1 for B or no suffix, in either case of the
\* letters; a negative number or any other suffix makes the CLI exit with
\* code 1 before any file is processed.
C23_EmbedLimitSize ==
    /\ \A i \in 1..Len(argv) :
          (argv[i].name = "embed-limit" /\ HasNumber(argv[i].arg)) =>
              /\ i < optind => ValidSize(argv[i].arg)
              /\ (i = optind /\ pc = "exited") => ~ValidSize(argv[i].arg)
              /\ (i = optind - 1 /\ pc = "getopt") =>
                    IsSizeOf(flags.embed_limit, argv[i].arg)
    /\ pc = "exited" =>
          /\ ExitStatus = 1
          /\ argv[optind].name = "embed-limit"
          /\ input_files = << >> /\ reads = << >> /\ ~inited

\* --embed-limit 2Kb was read as 2048.
C23_Witness ==
    /\ argv = <<EmbedLimit(<<"2", "K", "b">>)>>
    /\ optind = 2
    /\ flags.embed_limit = SizeT(0, 2048)

\* The options of the command line named name, in command-line order.
OptionsNamed(name) == SelectSeq(argv, LAMBDA w : w.name = name)

\* The SIZE of the last --embed-limit of the command line (0: none given).
LastSize ==
    LET given == OptionsNamed("embed-limit")
    IN IF given = << >> THEN SizeT(0, 0) ELSE parse_size(given[Len(given)].arg).size

\* C24: --embed-limit sets only the soft cap and --embed-hard-limit alone
\* decides whether the cap is a hard error: after option processing,
\* embed_hard_error is true iff --embed-hard-limit was given, embed_limit
\* is the parsed SIZE when SIZE > 0 and its 10 MiB default when the option
\* is absent or SIZE is 0, and embed_hard_limit keeps its 50 MiB default.
C24_EmbedLimitSoftCapOnly ==
    pc \in {"macros", "configured"} =>
        /\ compiler.embed_hard_error <=> OptionsNamed("embed-hard-limit") # << >>
        /\ compiler.embed_limit =
              IF Positive(LastSize) THEN LastSize ELSE Bytes(10 * 1024 * 1024)
        /\ compiler.embed_hard_limit = Bytes(50 * 1024 * 1024)

\* C24 (amended): --embed-limit SIZE with SIZE > 0 sets both thresholds,
\* embed_limit and embed_hard_limit, to SIZE (the last SIZE given); when the
\* option is absent or SIZE is 0 they keep their defaults of 10 MiB and
\* 50 MiB; embed_hard_error is true iff --embed-hard-limit was given.
C24_EmbedLimitSetsBothCaps ==
    pc \in {"macros", "configured"} =>
        /\ compiler.embed_hard_error <=> OptionsNamed("embed-hard-limit") # << >>
        /\ compiler.embed_limit =
              IF Positive(LastSize) THEN LastSize ELSE Bytes(10 * 1024 * 1024)
        /\ compiler.embed_hard_limit =
              IF Positive(LastSize) THEN LastSize ELSE Bytes(50 * 1024 * 1024)

\* The command line was --embed-limit 2k alone: both thresholds are 2048
\* and exceeding them is no hard error.
C24_Witness ==
    /\ pc = "configured"
    /\ argv = <<EmbedLimit(<<"2", "k">>)>>
    /\ compiler.embed_limit = SizeT(0, 2048)
    /\ compiler.embed_hard_limit = SizeT(0, 2048)
    /\ ~compiler.embed_hard_error

\* The calls main makes for the -D options and for the -U options of the
\* command line.
DefineCallsOf(line) ==
    LET ds == SelectSeq(line, LAMBDA w : w.name = "D")
    IN [i \in 1..Len(ds) |-> [name |-> ds[i].arg, buf |-> <<"1">>]]
UndefCallsOf(line) ==
    LET us == SelectSeq(line, LAMBDA w : w.name = "U")
    IN [i \in 1..Len(us) |-> [undef |-> us[i].arg]]

\* C26: the driver applies every -D definition before any -U undefinition,
\* each group in command-line order, however -D and -U are interleaved on
\* the command line; hence a macro named by both a -D and a -U option is
\* undefined when preprocessing starts, even if -U precedes -D.
C26_DefinesBeforeUndefs ==
    pc = "configured" =>
        /\ define_calls = DefineCallsOf(argv) \o UndefCallsOf(argv)
        /\ \A i \in 1..Len(argv) : \A j \in 1..Len(argv) :
              (argv[i].name = "U" /\ argv[j].name = "D" /\ argv[i].arg = argv[j].arg)
                  => argv[i].arg \notin DOMAIN compiler.macros

\* The command line was -U A -D A -D B: A is undefined and B is defined
\* when preprocessing starts.
C26_Witness ==
    /\ pc = "configured"
    /\ argv = <<UndefOption(<<"A">>), DefineOption(<<"A">>), DefineOption(<<"B">>)>>
    /\ DOMAIN compiler.macros = {<<"B">>}

\* ------------------------------------------------------------------------
\* Conditional compilation: cc_preprocess on a text with conditional groups
\* ------------------------------------------------------------------------

If(value) == [kind |-> "if", name |-> value]
Ifdef(macro) == [kind |-> "ifdef", name |-> macro]
Ifndef(macro) == [kind |-> "ifndef", name |-> macro]
Elif(value) == [kind |-> "elif", name |-> value]
Else == [kind |-> "else", name |-> ""]
Endif == [kind |-> "endif", name |-> ""]

\* The identifier written at position i of a text: each position has its
\* own spelling, so that a token of the output tells where it was written.
Spellings == <<"a", "b", "c", "d", "e", "f", "g", "h">>
IdentAt(i) == Ident(Spellings[i])

\* The conditional directives of the texts: #if 0, #if 1, #ifdef A,
\* #ifndef A, #elif 0, #elif 1, #else, #endif.
CondDirectives ==
    {If("0"), If("1"), Ifdef("A"), Ifndef("A"), Elif("0"), Elif("1"), Else, Endif}

\* The text of a shape: a sequence of directives and of places for an
\* identifier (written Ident("")).
CondText(shape) ==
    [i \in 1..Len(shape) |-> IF shape[i] = Ident("") THEN IdentAt(i) ELSE shape[i]]

\* #define A x
MacroA == [n \in {"A"} |-> ObjectLike(<<Ident("x")>>)]

InitCond ==
    /\ \E k \in 0..MaxCond : \E shape \in [1..k -> CondDirectives \cup {Ident("")}] :
          fs = [path \in {"a.c"} |-> CondText(shape)]
    /\ compiler = [compiler_init EXCEPT !.macros = MacroA]
    /\ compiler2 = compiler_init
    /\ compiler0 = <<compiler, compiler2>>
    /\ tokens = << >>
    /\ stdout = << >>
    /\ reads = << >>
    /\ argv = << >>
    /\ optind = 1
    /\ input_files = << >>
    /\ flags = NoFlags
    /\ stdin = << >>
    /\ stdin0 = << >>
    /\ defines = << >>
    /\ undefs = << >>
    /\ define_calls = << >>
    /\ pc = "library"
    /\ exit_code = 0
    /\ idx = 0
    /\ count = 0
    /\ calls = << >>
    /\ inited = TRUE
    /\ jumped = FALSE
    /\ open_files = 0
    /\ opt = NoOptions
    /\ cc = cc_init
    /\ objs = << >>
    /\ objs0 = << >>
    /\ progs = << >>
    /\ merged = NULL
    /\ lpc = "preprocess"
    /\ nlinks = 0

\* cc_preprocess(&vm, "a.c") returns the token list.
PreprocessReturns ==
    /\ lpc = "preprocess"
    /\ LET r == preprocess(compiler, fs, Tokenize(fs["a.c"], "a.c"))
       IN /\ ~r.error
          /\ compiler' = r.comp
          /\ reads' = Append(reads, ReadRecord(1, "a.c", compiler,
                                 [comp |-> r.comp, tok |-> r.tok,
                                  exhausted |-> r.exhausted,
                                  called |-> <<"tokenize_file", "preprocess">>]))
    /\ lpc' = "returned"
    /\ UNCHANGED <<cc, objs, objs0, progs, merged, nlinks, opt, open_files, jumped,
                   compiler2, compiler0, tokens, stdout, argv, optind, input_files,
                   flags, stdin, stdin0, fs, defines, undefs, define_calls, pc,
                   exit_code, idx, count, calls, inited>>

\* cc_preprocess(&vm, "a.c") reports a stray #elif, #else or #endif, or an
\* unterminated conditional directive.
PreprocessReports ==
    /\ lpc = "preprocess"
    /\ preprocess(compiler, fs, Tokenize(fs["a.c"], "a.c")).error
    /\ calls' = Append(calls, "error_tok")
    /\ lpc' = "escaped"
    /\ UNCHANGED <<cc, objs, objs0, progs, merged, nlinks, opt, open_files, jumped,
                   cliVars, libVars, pc, exit_code, idx, count, inited>>

NextCond == PreprocessReturns \/ PreprocessReports

SpecCond == InitCond /\ [][NextCond]_vars

\* The text cc_preprocess was called on.
CondSource == fs["a.c"]

\* The number of groups open before the lexeme at position i.
Level(i) ==
    Cardinality({j \in 1..(i - 1) : IsOpener(CondSource[j])})
        - Cardinality({j \in 1..(i - 1) : CondSource[j].kind = "endif"})

\* The positions of the directives that open a group.
Openers == {j \in 1..Len(CondSource) : IsOpener(CondSource[j])}

\* The position of the #endif of the group opened at j.
Close(j) ==
    LET ends == {k \in (j + 1)..Len(CondSource) :
                    CondSource[k].kind = "endif" /\ Level(k) = Level(j) + 1}
    IN IF ends = {} THEN Len(CondSource) + 1
       ELSE CHOOSE k \in ends : \A m \in ends : k <= m

\* The directives that start the branches of the group opened at j: the
\* opening directive, its #elif and its #else.
Heads(j) ==
    {j} \cup {k \in (j + 1)..(Close(j) - 1) :
                 CondSource[k].kind \in {"elif", "else"} /\ Level(k) = Level(j) + 1}

\* The branch of the group opened at j that position p lies in.
BranchOf(j, p) ==
    LET before == {h \in Heads(j) : h <= p}
    IN CHOOSE h \in before : \A m \in before : m <= h

\* The identifier written at position p is in the token list returned.
Written(p) ==
    \E i \in 1..Len(reads[1].tok) :
        reads[1].tok[i].kind = "ident" /\ reads[1].tok[i].name = Spellings[p]

\* A token of branch h of the group opened at j reached the output.
ReachesOutput(j, h) ==
    \E p \in (j + 1)..(Close(j) - 1) :
        CondSource[p].kind = "ident" /\ BranchOf(j, p) = h /\ Written(p)

\* The condition of the branch that starts at h is true (#else has none).
HeadTrue(h) == CondSource[h].kind = "else" \/ CondValue(reads[1].before, CondSource[h])

=============================================================================
